---- MODULE Spec2Model ----
(***************************************************************************)
(* A model of the HPDDM iterative-method engine: the Arnoldi kernel of     *)
(* include/iterative.hpp and the CG, BCG and PCG methods of include/CG.hpp.*)
(*                                                                         *)
(* One solve is run by every rank of the communicator.  The only           *)
(* cross-rank primitive is the blocking collective sum-reduction, so the   *)
(* ranks advance in lock step from one group of collectives to the next:   *)
(* an action is one step of the code (entry, one loop pass, exit) taken by *)
(* all ranks, each rank running its own instantiation (excluded or not,    *)
(* its own local size n).  Floating-point data is abstracted: what a       *)
(* buffer holds is a tag (zero, garbage, local partial value, reduced      *)
(* sum), and the outcome of a test on reduced values (a column meets the   *)
(* tolerance, a dense factorization reports info != 0) is chosen freely    *)
(* but is the same on every rank, since it is computed from the result of  *)
(* a reduction.                                                            *)
(***************************************************************************)
EXTENDS Integers, Sequences, FiniteSets, TLC

VARIABLES
    opt,    \* the configuration and the arguments of the call under study
    rk,     \* rk[r]: the local state of rank r (loop counters, buffers, the
            \* calls and collectives of its current step, its return value)
    gh      \* what the collaborators outside src/ decided so far (the
            \* convergence monitor's marks, the values GMRES returned)

vars == <<opt, rk, gh>>

(***************************************************************************)
(* Bounds of the model and constants of the program.                       *)
(***************************************************************************)
MaxIt == 4

MaxMu == 2

MaxStep == 2

MaxOps == 4

USHRT_MAX == 65535

SHRT_WIDTH == 65536

(***************************************************************************)
(* The three instantiations a communicator can mix: a rank compiled with   *)
(* excluded = true, a non-excluded rank whose getDof() is 0, and an        *)
(* ordinary rank.                                                          *)
(***************************************************************************)
AllRanks == {"excl", "zero", "ord"}

\* the ranks of the communicator of the run
Ranks == DOMAIN rk

\* a second run of the same solve, on the same ranks, that differs from the
\* first in the verbosity level only: its ranks
Twin(r) == IF r = "excl" THEN "excl_v" ELSE "ord_v"

Excluded(r) == r \in {"excl", Twin("excl")}

GetDof(r) == IF r = "zero" THEN 0 ELSE 2

\* const int n = excluded ? 0 : A.getDof();
LocalN(r) == IF Excluded(r) THEN 0 ELSE GetDof(r)

Min(a, b) == IF a < b THEN a ELSE b

Max(a, b) == IF a < b THEN b ELSE a

(***************************************************************************)
(* Fixed-width integers.                                                   *)
(***************************************************************************)
\* the value an int takes when it is stored in a short
ToShort(x) == ((x + 32768) % SHRT_WIDTH) - 32768

\* the value an int takes when it is stored in an unsigned short
ToUShort(x) == x % SHRT_WIDTH

(***************************************************************************)
(* Abstract buffers.  A buffer is a run-length encoded sequence of tags,   *)
(* <<tag, length>> runs: "0" an exact zero, "g" whatever the memory held   *)
(* before, "l" a locally computed partial value, "s" the result of a       *)
(* reduction (the sum over all ranks).                                     *)
(***************************************************************************)
RECURSIVE RDrop(_, _)
RDrop(b, c) ==
    IF c <= 0 \/ b = <<>> THEN b
    ELSE IF b[1][2] <= c THEN RDrop(Tail(b), c - b[1][2])
    ELSE <<(<<b[1][1], b[1][2] - c>>)>> \o Tail(b)

RECURSIVE RTake(_, _)
RTake(b, c) ==
    IF c <= 0 \/ b = <<>> THEN <<>>
    ELSE IF b[1][2] <= c THEN <<b[1]>> \o RTake(Tail(b), c - b[1][2])
    ELSE <<(<<b[1][1], c>>)>>

RECURSIVE RNorm(_)
RNorm(b) ==
    IF Len(b) <= 1 THEN b
    ELSE IF b[1][1] = b[2][1]
         THEN RNorm(<<(<<b[1][1], b[1][2] + b[2][2]>>)>> \o Tail(Tail(b)))
         ELSE <<b[1]>> \o RNorm(Tail(b))

\* a buffer of len elements all tagged tag
RNew(len, tag) == IF len <= 0 THEN <<>> ELSE <<(<<tag, len>>)>>

\* std::fill_n(buf + off, cnt, value) and every other write of cnt elements
RFill(b, off, cnt, tag) ==
    IF cnt <= 0 THEN b
    ELSE RNorm(RTake(b, off) \o <<(<<tag, cnt>>)>> \o RDrop(b, off + cnt))

\* whether the cnt elements from off on all carry tag
RAll(b, off, cnt, tag) ==
    LET seg == RTake(RDrop(b, off), cnt)
    IN  \A k \in 1..Len(seg) : seg[k][1] = tag

(***************************************************************************)
(* Events: what a rank calls during one step, in program order.            *)
(***************************************************************************)
Ev(op, cnt, ty, zero) == [op |-> op, cnt |-> cnt, ty |-> ty, zero |-> zero]

Call(op) == Ev(op, 0, "-", FALSE)

\* MPI_Allreduce(MPI_IN_PLACE, buf + off, cnt, ty, MPI_SUM, comm); the event
\* records whether the rank's contribution was all zeros
Allreduce(b, off, cnt, ty) == Ev("allreduce", cnt, ty, RAll(b, off, cnt, "0"))

\* the collectives of a trace, without the contribution
Collectives(tr) ==
    LET c == SelectSeq(tr, LAMBDA e : e.op \in {"allreduce", "computeDot", "QR"})
    IN  [k \in 1..Len(c) |-> <<c[k].op, c[k].cnt, c[k].ty>>]

ZeroContributions(tr) ==
    \A k \in 1..Len(tr) : tr[k].op = "allreduce" => tr[k].zero

(***************************************************************************)
(* IterativeMethod::Arnoldi: one step, index opt.i, of the Arnoldi method  *)
(* for opt.mu right-hand sides.  H is column opt.i of the Hessenberg       *)
(* matrix ((i + 2) * mu entries), sn the rotation sines up to step i.      *)
(***************************************************************************)
ArnoldiIdle(i, mu) ==
    [pc |-> "call", k |-> 0, tr |-> <<>>, rd |-> {}, wr |-> {},
     H  |-> RNew((i + 2) * mu, "g"),
     sn |-> RNorm(RNew(i * mu, "v") \o RNew(mu, "g"))]

\* the operator and the preconditioner, in the order of the variant
ArnoldiApply(s, ex) ==
    LET gmv == IF ~ex THEN <<Call("GMV")>> ELSE <<>>
    IN  [s EXCEPT !.tr = IF opt.variant = "L"
                         THEN gmv \o <<Call("apply")>>
                         ELSE <<Call("apply")>> \o gmv,
                  !.k  = 0,
                  !.pc = "proj"]

\* the excluded branch without its std::fill_n: the buffer keeps what it held
ArnoldiZeroFill_NoFill(H, i, mu) == H

\* std::fill_n(H[i], mu * (i + 1), K());
ArnoldiZeroFill(H, i, mu) == RFill(H, 0, mu * (i + 1), "0")

\* if(excluded): the projection coefficients, one reduction per firing
ArnoldiProjectExcluded(s) ==
    LET i  == opt.i
        mu == opt.mu
        H0 == IF s.k = 0 THEN ArnoldiZeroFill(s.H, i, mu) ELSE s.H
    IN  IF opt.gs = 1
        THEN [s EXCEPT !.tr = Append(@, Allreduce(H0, mu * s.k, mu, "K")),
                       !.H  = RFill(H0, mu * s.k, mu, "s"),
                       !.k  = s.k + 1,
                       !.pc = IF s.k + 1 < i + 1 THEN "proj" ELSE "norm"]
        ELSE [s EXCEPT !.tr = Append(@, Allreduce(H0, 0, mu * (i + 1), "K")),
                       !.H  = RFill(H0, 0, mu * (i + 1), "s"),
                       !.k  = i + 1,
                       !.pc = "norm"]

\* else: the local dot products, their reduction, the update of v[i + 1]
ArnoldiProjectLocal(s) ==
    LET i  == opt.i
        mu == opt.mu
    IN  IF opt.gs = 1
        THEN LET Hl == RFill(s.H, s.k * mu, mu, "l")
                 Hs == RFill(Hl, s.k * mu, mu, "s")
             IN  [s EXCEPT !.tr = Append(@, Allreduce(Hl, s.k * mu, mu, "K"))
                                      \o <<Call("axpy")>>,
                           !.H  = RFill(Hs, (i + 1) * mu, mu, "s"),
                           !.k  = s.k + 1,
                           !.pc = IF s.k + 1 < i + 1 THEN "proj" ELSE "norm"]
        ELSE LET Hl == RFill(s.H, 0, (i + 1) * mu, "l")
             IN  [s EXCEPT !.tr = Append(@, Allreduce(Hl, 0, (i + 1) * mu, "K"))
                                      \o <<Call(IF opt.gs = 0 THEN "gemv" ELSE "axpby")>>,
                           !.H  = RFill(Hl, 0, (i + 1) * mu, "s"),
                           !.k  = i + 1,
                           !.pc = "norm"]

ArnoldiProject(s, ex) ==
    IF ex THEN ArnoldiProjectExcluded(s) ELSE ArnoldiProjectLocal(s)

\* a reduction of the norm of the first right-hand side only
ArnoldiNormCount_One(mu) == 1

\* MPI_Allreduce(MPI_IN_PLACE, sn + i * mu, mu, ...): the norms of the mu
\* new vectors in one reduction
ArnoldiNormCount(mu) == mu

\* the norm of the new vector: sn + i * mu is reduced, then H[i][(i + 1) * mu + nu]
\* is its square root
ArnoldiNorm(s, ex) ==
    LET i   == opt.i
        mu  == opt.mu
        snl == RFill(s.sn, i * mu, mu, IF ex THEN "0" ELSE "l")
    IN  [s EXCEPT !.tr = Append(@, Allreduce(snl, i * mu, ArnoldiNormCount(mu), "U"))
                             \o (IF ~ex /\ i < opt.m - 1 THEN <<Call("scale")>> ELSE <<>>),
                  !.sn = RFill(snl, i * mu, mu, "s"),
                  !.H  = RFill(s.H, (i + 1) * mu, mu, "s"),
                  !.pc = "givens"]

\* the previous rotations applied to column i, then the new rotation
ArnoldiGivens(s) ==
    [s EXCEPT !.tr = @ \o (IF opt.save THEN <<Call("save")>> ELSE <<>>),
              !.H  = RFill(@, 0, (opt.i + 2) * opt.mu, "s"),
              !.sn = RFill(@, opt.i * opt.mu, opt.mu, "s"),
              !.pc = "done"]

(***************************************************************************)
(* The solvers of CG.hpp.  A rank's state:                                 *)
(*   pc      where the rank is: "call", "gmres" (inside the GMRES it was   *)
(*           redirected to), "cg_loop" / "bcg_loop" / "pcg_loop" (at the   *)
(*           loop test), "cg_break" / "bcg_break" / "pcg_break" (left the  *)
(*           loop by break), "done"                                        *)
(*   i       CG's int i;  bi  the unsigned short i of BCG and PCG          *)
(*   conv    CG's short hasConverged[mu]                                   *)
(*   cgret   what the CG call returned, ret what the top-level call        *)
(*           returned (-1: nothing yet)                                    *)
(*   tr      the calls of the rank's current step, in program order        *)
(*   ncg, ngmres    how often CG and GMRES were entered                    *)
(*   iters, biters  how often the body of CG's loop and of the loop of     *)
(*           BCG or PCG was entered                                        *)
(*   hrd, hwr  what the last CG pass read and wrote of its workspace:      *)
(*           <<"p", a, b>> the slots p + a * dim .. p + b * dim,           *)
(*           <<"dir", a, b>> the entries dir[a] .. dir[b]                  *)
(*   zw, pw  the entries (from 0) of the lists z and p written in the      *)
(*           last PCG pass, aw the ranges <<first, last>> of alpha written *)
(*           and ar those read in it                                       *)
(*   alpha   PCG's coefficient array;  zlen, plen  the sizes of PCG's      *)
(*           vectors z and p                                               *)
(*   allocate   the local bool allocate, what A.start returned             *)
(*   verbosity  the verbosity level the rank read from its options         *)
(*   left    how the loop was left: "break", or "cap" when its condition   *)
(*           became false ("": not left yet)                               *)
(*   acct    the account of the calls of the whole invocation (below)      *)
(***************************************************************************)
\* The account kept over an invocation:
\*   starts, ends   how often A.start and A.end were called
\*   open, given    whether a start is not yet matched by an end, and what
\*                  that start returned
\*   unpaired       starts made inside a pair plus ends made outside one
\*   wrongArg       ends whose argument is not what the last start returned
\*   outside        GMV, apply, project or precond calls outside a pair
\*   reports        how often the method-level convergence report was made
\*   reported       the iteration number given to the last report
\*   live           per buffer, how many of its allocations are not released
\*   stray          releases of a buffer that was not live
Buffers == {"res", "trash", "hasConverged", "norm", "storage", "alpha", "z", "p"}

NoAcct ==
    [starts |-> 0, ends |-> 0, open |-> FALSE, given |-> 0,
     unpaired |-> 0, wrongArg |-> 0, outside |-> 0,
     reports |-> 0, reported |-> 0,
     live |-> [b \in Buffers |-> 0], stray |-> 0]

\* the calls that obtain a buffer, and the buffer obtained
Allocations ==
    ("new res" :> "res") @@ ("new trash" :> "trash")
    @@ ("new hasConverged" :> "hasConverged") @@ ("new norm" :> "norm")
    @@ ("allocateArray" :> "storage") @@ ("new alpha" :> "alpha")
    @@ ("allocateSingle z" :> "z") @@ ("allocateSingle p" :> "p")

\* the calls that release buffers, and the buffer released; clean z and
\* clean p release every entry of the list, the others one buffer
Releases ==
    ("delete res" :> "res") @@ ("delete trash" :> "trash")
    @@ ("delete hasConverged" :> "hasConverged") @@ ("delete norm" :> "norm")
    @@ ("clean storage" :> "storage") @@ ("delete alpha" :> "alpha")
    @@ ("clean z" :> "z") @@ ("clean p" :> "p")

Released(e) == IF e.op \in {"clean z", "clean p"} THEN e.cnt ELSE 1

\* the dense data of BCG on a rank, each buffer named by what produced its
\* content: rho and rhoB are the two mu x mu blocks at rho and rho + mu * mu,
\* gamma the triangular factor, norm the norms of the initial residual
NoBuf == [rho |-> <<>>, rhoB |-> <<>>, gamma |-> <<>>, norm |-> <<>>]

Idle ==
    [pc |-> "call", i |-> 0, bi |-> 0, conv |-> <<>>, cgret |-> -1, ret |-> -1,
     tr |-> <<>>, ncg |-> 0, ngmres |-> 0, iters |-> 0, biters |-> 0,
     alpha |-> <<>>, zlen |-> 0, plen |-> 0, zw |-> {}, pw |-> {}, aw |-> {},
     ar |-> {}, hrd |-> {}, hwr |-> {}, buf |-> NoBuf,
     allocate |-> 0, left |-> "",
     verbosity |-> 0,
     acct |-> NoAcct]

\* the calls of the operator that need its scratch
OperatorCalls == {"GMV", "apply", "project N", "project T", "precond"}

\* the account after one more call
AcctEvent(a, e) ==
    CASE e.op = "start" ->
            [a EXCEPT !.starts = @ + 1, !.open = TRUE, !.given = e.cnt,
                      !.unpaired = IF a.open THEN @ + 1 ELSE @]
      [] e.op = "end" ->
            [a EXCEPT !.ends = @ + 1, !.open = FALSE,
                      !.unpaired = IF a.open THEN @ ELSE @ + 1,
                      !.wrongArg = IF a.open /\ e.cnt = a.given THEN @ ELSE @ + 1]
      [] e.op \in OperatorCalls ->
            [a EXCEPT !.outside = IF a.open THEN @ ELSE @ + 1]
      [] e.op = "convergence" ->
            [a EXCEPT !.reports = @ + 1, !.reported = e.cnt]
      [] e.op \in DOMAIN Allocations ->
            [a EXCEPT !.live[Allocations[e.op]] = @ + 1]
      [] e.op \in DOMAIN Releases ->
            LET b == Releases[e.op]
                k == Released(e)
            IN  [a EXCEPT !.live[b] = IF k <= @ THEN @ - k ELSE 0,
                          !.stray = IF k <= a.live[b] THEN @ ELSE @ + k - a.live[b]]
      [] OTHER -> a

RECURSIVE AcctTrace(_, _)
AcctTrace(a, tr) ==
    IF tr = <<>> THEN a ELSE AcctTrace(AcctEvent(a, Head(tr)), Tail(tr))

\* the rank after a step, its calls entered in the account
Account(s) == [s EXCEPT !.acct = AcctTrace(@, s.tr)]

\* bool allocate = A.template start<excluded>(b, x, mu): what the operator
\* returns from its k-th start is a property of the operator
StartValue(k) == opt.scratch[k]

\* the rank after its next call of A.start
Start(s) ==
    LET k == s.acct.starts + Len(SelectSeq(s.tr, LAMBDA e : e.op = "start")) + 1
    IN  [s EXCEPT !.allocate = StartValue(k),
                  !.tr = Append(@, Ev("start", StartValue(k), "-", FALSE))]

\* the BCG fallback without its A.end(allocate)
BCGFallbackEnd_Skip(s) == s

\* A.end(allocate); on the way to return CG<excluded>(A, b, x, mu, comm)
BCGFallbackEnd(s) == [s EXCEPT !.tr = Append(@, Ev("end", s.allocate, "-", FALSE))]

NoGh == [markedAt |-> <<>>, verdict |-> FALSE, gmresRet |-> -1]

\* the redirection with one of the three Schwarz methods forgotten
Redirect_NoFour ==
    \/ opt.schwarz_method \in {0, 1}
    \/ opt.schwarz_coarse_correction \in {0}

\* opt.any_of(prefix + "schwarz_method", { 0, 1, 4 }) ||
\* opt.any_of(prefix + "schwarz_coarse_correction", { 0 })
Redirect ==
    \/ opt.schwarz_method \in {0, 1, 4}
    \/ opt.schwarz_coarse_correction \in {0}

\* return GMRES<excluded>(A, b, x, mu, comm);
CallGMRES(s) ==
    [s EXCEPT !.tr = Append(@, Ev("GMRES", opt.mu, "-", FALSE)),
              !.ngmres = @ + 1,
              !.pc = "gmres"]

\* hasConverged[nu] == -it, a short compared with an int
Unconverged(c) == c = -opt.it

\* std::find(hasConverged, hasConverged + mu, -it) == hasConverged + mu
NoneUnconverged(conv) == \A nu \in 1..Len(conv) : ~Unconverged(conv[nu])

\* the convergence monitor: a column still carrying the stored sentinel whose
\* residual meets the tolerance gets the iteration index
CheckConvergence(conv, i, meets) ==
    [nu \in 1..Len(conv) |->
        IF conv[nu] = ToShort(-opt.it) /\ meets[nu] THEN ToShort(i) ELSE conv[nu]]

\* the reduction of the orthogonalization coefficients issued only where
\* there is local work
CGReduce_OnlyLocal(ex, n, cnt) ==
    IF ~ex /\ n # 0 THEN <<Ev("allreduce", cnt, "U", FALSE)>> ELSE <<>>

\* MPI_Allreduce(MPI_IN_PLACE, dir..., cnt, Wrapper<K>::mpi_underlying_type(),
\* MPI_SUM, comm): outside every test of excluded and of n; a rank with n = 0
\* contributes the dot products of empty vectors
CGReduce(ex, n, cnt) == <<Ev("allreduce", cnt, "U", n = 0)>>

\* allocate(res, trash, n, ...): one array shared by res and trash when K is
\* real, one array each when K is complex
CGAllocate ==
    <<Call("new res")>> \o (IF opt.complex THEN <<Call("new trash")>> ELSE <<>>)

\* CG up to its loop: the redirection, the workspace, the initial residual
CGEntry(s, ex, n) ==
    IF Redirect THEN CallGMRES(s)
    ELSE [Start([s EXCEPT !.tr = @ \o CGAllocate \o <<Call("new hasConverged")>>])
          EXCEPT
            !.tr = @ \o (IF ~ex THEN <<Call("GMV")>> ELSE <<>>)
                     \o <<Call("apply")>> \o CGReduce(ex, n, opt.mu),
            !.conv = [nu \in 1..opt.mu |-> ToShort(-opt.it)],
            !.ncg = @ + 1,
            !.i = 0,
            !.pc = "cg_loop"]

\* the columns the pass updates: x and r of every column not yet converged
CGUpdates(conv) ==
    LET RECURSIVE upd(_)
        upd(nu) == IF nu > Len(conv) THEN <<>>
                   ELSE (IF Unconverged(conv[nu])
                         THEN <<Ev("update", nu, "-", FALSE)>> ELSE <<>>) \o upd(nu + 1)
    IN  upd(1)

\* --i; break;
CGBreakIndex(i) == i - 1

\* a range of slots or entries; nothing when it is empty
Range(arr, lo, hi) == IF lo <= hi THEN {<<arr, lo, hi>>} ELSE {}

\* the denominator of iteration j kept where the coefficients are written
CGDenominator_Low(j, nu) == j * opt.mu + nu

\* dir[(it + j) * mu + nu]: the step denominator of iteration j, column nu
CGDenominator(j, nu) == (opt.it + j) * opt.mu + nu

\* an orthogonalization against one stored direction only
CGDirectionsRead_One(i) == Min(i, 1)

\* for(unsigned short k = 0; k < i; ++k): the stored directions a pass that
\* starts at i orthogonalizes against, whatever the variant
CGDirectionsRead(i) == i

\* what a pass that starts at i reads and writes of p and dir
CGHistory(i, ex, n) ==
    LET mu    == opt.mu
        it    == opt.it
        local == ~ex /\ n # 0
        \* the coefficients against the slots from..from + i - 1 (dot
        \* products of n entries), then gemv
        orth(from) ==
            [rd |-> (IF n # 0 THEN Range("p", from, from + CGDirectionsRead(i) - 1) ELSE {})
                      \cup Range("dir", CGDenominator(1, 0),
                                 CGDenominator(CGDirectionsRead(i), mu - 1))
                      \cup (IF local
                            THEN Range("p", 1, CGDirectionsRead(i))
                                   \cup Range("dir", mu, mu + i * mu - 1)
                            ELSE {}),
             wr |-> Range("dir", mu, mu + i * mu - 1)
                      \cup (IF local THEN Range("p", 0, 0) ELSE {})]
        none  == [rd |-> {}, wr |-> {}]
        recy  == IF opt.variant = 2 /\ i # 0 THEN orth(1 + it) ELSE none
        all   == IF i # 0 THEN orth(1) ELSE none
        i1    == i + 1
    IN  [rd |-> recy.rd \cup all.rd \cup (IF n # 0 THEN Range("p", 0, 0) ELSE {})
                  \cup Range("dir", 0, 2 * mu - 1),
         wr |-> recy.wr \cup all.wr
                  \cup Range("dir", 0, 2 * mu - 1)
                  \cup Range("dir", CGDenominator(i1, 0), CGDenominator(i1, mu - 1))
                  \cup Range("p", i1, i1)
                  \cup (IF opt.variant = 2 THEN Range("p", it + i1, it + i1)
                        ELSE IF n # 0 THEN Range("p", 0, 0) ELSE {})]

\* one pass of while(i < it); meets[nu]: the reduced residual of column nu is
\* within the tolerance after this pass
CGIter(s, ex, n, meets) ==
    LET i    == s.i
        mu   == opt.mu
        recy == IF opt.variant = 2 /\ i # 0
                THEN CGReduce(ex, n, i * mu)
                       \o (IF ~ex /\ n # 0 THEN <<Call("gemv")>> ELSE <<>>)
                ELSE <<>>
        gmv  == IF ~ex THEN <<Call("GMV")>> ELSE <<>>
        orth == IF i # 0
                THEN CGReduce(ex, n, i * mu)
                       \o (IF ~ex
                           THEN (IF n # 0 THEN <<Call("gemv")>> ELSE <<>>)
                                  \o <<Call("GMV")>>
                           ELSE <<>>)
                ELSE <<>>
        i1   == i + 1
        c1   == CheckConvergence(s.conv, i1, meets)
        out  == NoneUnconverged(c1)
    IN  [s EXCEPT
            !.tr = recy \o gmv \o orth
                     \o CGReduce(ex, n, 2 * mu)
                     \o CGUpdates(s.conv)
                     \o <<Call("apply")>>
                     \o CGReduce(ex, n, 2 * mu)
                     \o (IF opt.variant # 2 THEN <<Call("axpby")>> ELSE <<>>)
                     \o <<Call("checkConvergence")>>,
            !.conv = c1,
            !.iters = @ + 1,
            !.hrd = CGHistory(i, ex, n).rd,
            !.hwr = CGHistory(i, ex, n).wr,
            !.i = IF out THEN CGBreakIndex(i1) ELSE i1,
            !.pc = IF out THEN "cg_break" ELSE "cg_loop"]

\* return std::min(static_cast<unsigned short>(i), it);
CGReturnValue(i) == Min(ToUShort(i), opt.it)

\* the report given the loop counter as it stands
CGReportedIteration_Counter(i) == i

\* convergence<2>(id[0], i + 1, it);
CGReportedIteration(i) == i + 1

\* after the loop: the report, the releases, A.end, the return value
CGExit(s) ==
    [s EXCEPT
        !.tr = <<Ev("convergence", CGReportedIteration(s.i), "-", FALSE), Call("delete res")>>
                 \o (IF opt.complex THEN <<Call("delete trash")>> ELSE <<>>)
                 \o <<Call("delete hasConverged"), Ev("end", s.allocate, "-", FALSE)>>,
        !.cgret = CGReturnValue(s.i),
        !.left = IF s.pc = "cg_break" THEN "break" ELSE "cap",
        !.pc = "returned"]

\* return CG<excluded>(A, b, x, mu, comm);
BCGFallbackValue(s) == s.cgret

\* the value the top-level call hands to its caller once CG has returned
TopReturn(s) ==
    [s EXCEPT !.ret = IF opt.method = "BCG" THEN BCGFallbackValue(s) ELSE s.cgret,
              !.pc = "done"]

\* the releases of a fallback that forgets norm
BCGFallbackRelease_TrashOnly(normAllocated) == <<Call("delete trash")>>

\* delete [] norm; delete [] trash; on the way to return CG<excluded>(...):
\* norm only in the fallbacks after its allocation
BCGFallbackRelease(normAllocated) ==
    (IF normAllocated THEN <<Call("delete norm")>> ELSE <<>>) \o <<Call("delete trash")>>

\* BCG leaves the block iteration: the releases made so far, A.end, then CG
BCGFallback(s, ex, n, normAllocated) ==
    CGEntry(BCGFallbackEnd([s EXCEPT !.tr = @ \o BCGFallbackRelease(normAllocated)]),
            ex, n)

\* the Gram matrix a rank contributes: computed when !excluded && n, zero otherwise
BCGGram(ex, n, cnt) == Ev("allreduce", cnt, "U", ex \/ n = 0)

\* what MPI_Allreduce(MPI_IN_PLACE, ..., MPI_SUM, comm) at the given line of
\* CG.hpp leaves in its buffer: the sum, the same on every rank
Reduced(line) == <<"sum", line>>

\* what QR leaves in gamma: the factor of the reduced Gram matrix of p
QRFactor == <<"R">>

\* the data the info of ppsv depends on, the right-hand side counted in
PpsvInput_WithRhs(ap, b) == <<ap, b>>

\* Lapack<K>::ppsv("U", &mu, &mu, rhs, rho + mu * mu, &mu, &info): info
\* reports on the factorization of the packed matrix, whatever b holds
PpsvInput(ap, b) == ap

\* the data the decisions of a pass read on a rank: the matrix ppsv
\* factorizes (the right-hand side at rho + mu * mu went through trsm on
\* the ranks that are not excluded only), the norms and the reduced residual
\* that checkBlockConvergence compares, the matrix posv factorizes
BCGInputs(buf, ex) ==
    LET b == IF ~ex THEN <<"trsm", buf.gamma, buf.rhoB>> ELSE buf.rhoB
    IN  <<PpsvInput(Reduced(222), b), <<buf.norm, Reduced(254)>>, buf.rho>>

\* the place of an outcome among the decisions of a pass
Decision(o) ==
    CASE o = "ppsv" -> 1 [] o = "conv" -> 2 [] o = "posv" -> 3 [] OTHER -> 4

\* the outcome of the pass on a rank: o, what the routines make of the data
\* of the ordinary rank, as long as the rank's decisions up to that one read
\* the same data; on other data a routine may report otherwise
BCGOutcome(mine, ref, o, alt) ==
    IF \A d \in 1..Min(Decision(o), 3) : mine[d] = ref[d] THEN o ELSE alt

\* BCG up to its loop; qr: the initial QR reports info != 0
BCGEntry(s, ex, n, qr) ==
    IF Redirect THEN CallGMRES(s)
    ELSE IF opt.variant = 2 THEN CGEntry(s, ex, n)
    ELSE LET mu == opt.mu
             s1 == [Start([s EXCEPT !.tr = Append(@, Call("new trash"))]) EXCEPT
                      !.tr = @ \o (IF ~ex THEN <<Call("GMV")>> ELSE <<>>)
                               \o <<Call("apply"), BCGGram(ex, n, (mu * (mu + 1)) \div 2),
                                    Ev("QR", mu, "-", FALSE)>>]
         IN  IF qr THEN BCGFallback(s1, ex, n, FALSE)
             ELSE [s1 EXCEPT !.tr = Append(@, Call("new norm")),
                             !.buf = [rho |-> Reduced(186), rhoB |-> Reduced(186),
                                      gamma |-> QRFactor,
                                      norm |-> <<"nrm2", QRFactor>>],
                             !.bi = 1,
                             !.pc = "bcg_loop"]

\* one pass of while(i <= m[0]); o: what the reduced data makes of the pass
\* ("ppsv", "posv", "qr": that routine reports info != 0; "conv": the block
\* convergence check counts mu converged columns; "ok": none of these)
BCGIter(s, ex, n, o) ==
    LET mu == opt.mu
        m1 == opt.enlarge
        s1 == [s EXCEPT
                 !.tr = (IF ~ex THEN <<Call("GMV"), Call("trsm")>> ELSE <<>>)
                          \o <<BCGGram(ex, n, (mu * (mu + 1)) \div 2), Call("ppsv")>>,
                 !.biters = @ + 1]
        s2 == [s1 EXCEPT
                 !.tr = @ \o (IF ~ex /\ n # 0 THEN <<Call("gemm")>> ELSE <<>>)
                          \o <<Call("apply"),
                               BCGGram(ex, n, (mu \div m1) + (mu * (mu + 1)) \div 2),
                               Call("checkBlockConvergence")>>]
        s3 == [s2 EXCEPT !.bi = ToUShort(@ + 1), !.tr = Append(@, Call("posv"))]
        s4 == [s3 EXCEPT !.tr = @ \o (IF ~ex /\ n # 0 THEN <<Call("trmm")>> ELSE <<>>)
                                  \o <<Ev("QR", mu, "-", FALSE)>>]
    IN  CASE o = "ppsv" -> BCGFallback(s1, ex, n, TRUE)
          [] o = "conv" -> [s2 EXCEPT !.pc = "bcg_break"]
          [] o = "posv" -> BCGFallback(s3, ex, n, TRUE)
          [] o = "qr"   -> BCGFallback(s4, ex, n, TRUE)
          [] OTHER      -> [s4 EXCEPT !.buf = [@ EXCEPT !.rho = Reduced(254),
                                                         !.rhoB = Reduced(254),
                                                         !.gamma = QRFactor],
                                      !.pc = "bcg_loop"]

\* return std::min(i, m[0]);
BCGReturnValue(i) == Min(i, opt.it)

\* after the loop: the report, the releases, A.end, the return value
BCGExit(s) ==
    [s EXCEPT
        !.tr = <<Ev("convergence", s.bi, "-", FALSE), Call("delete norm"),
                 Call("delete trash"), Ev("end", s.allocate, "-", FALSE)>>,
        !.ret = BCGReturnValue(s.bi),
        !.left = IF s.pc = "bcg_break" THEN "break" ELSE "cap",
        !.pc = "done"]


(***************************************************************************)
(* IterativeMethod::PCG.                                                   *)
(***************************************************************************)
\* an array of it entries, at least two, on every rank
PCGAlphaLength_Cap(ex) == Max(2, opt.it)

\* new K[excluded ? std::max(static_cast<unsigned short>(2), it) : 2 * it]
PCGAlphaLength(ex) == IF ex THEN Max(2, opt.it) ELSE 2 * opt.it

\* PCG up to its loop: the storage, z_0 = M r_0, the initial residual norm
PCGEntry(s, ex, n) ==
    [Start([s EXCEPT !.tr = Append(@, Call("allocateArray"))]) EXCEPT
        !.tr = @ \o <<Call("allocateSingle z")>>
                 \o (IF ~ex THEN <<Call("precond")>> ELSE <<>>)
                 \o <<Ev("computeDot", 1, "U", ex), Call("allocateSingle p"),
                      Call("new alpha")>>,
        !.zlen = 1,
        !.plen = 1,
        !.zw = IF ex THEN {} ELSE {0},
        !.alpha = RNew(PCGAlphaLength(ex), "g"),
        !.bi = 1,
        !.pc = "pcg_loop"]

\* the excluded branch without the std::fill_n before its second reduction
PCGExcludedFill2_NoFill(alpha) == alpha

\* std::fill_n(alpha, 2, K());
PCGExcludedFill2(alpha) == RFill(alpha, 0, 2, "0")

\* the two reductions of a pass on an excluded rank
PCGReduceExcluded(s) ==
    LET i  == s.bi
        a1 == RFill(s.alpha, 0, i - 1, "0")
        a2 == RFill(a1, 0, i - 1, "s")
        a3 == PCGExcludedFill2(a2)
    IN  [s EXCEPT
            !.tr = <<Call("project N"), Allreduce(a1, 0, i - 1, "K"),
                     Allreduce(a3, 0, 2, "K"), Call("project T")>>,
            !.alpha = RFill(a3, 0, 2, "s"),
            !.aw = (IF i - 1 > 0 THEN {<<0, i - 2>>} ELSE {}) \cup {<<0, 1>>},
            !.ar = (IF i - 1 > 0 THEN {<<0, i - 2>>} ELSE {}) \cup {<<0, 1>>}]

\* z.emplace_back(zCurr);
PCGAppendZ(zlen) == zlen + 1

\* a pass that obtains no new buffer for z
PCGNewZ_Reuse == <<>>

\* A.allocateSingle(zCurr); in the pass of a rank that is not excluded
PCGNewZ == <<Call("allocateSingle z")>>

\* the two reductions of a pass on a rank with local data
PCGReduceLocal(s) ==
    LET i  == s.bi
        it == opt.it
        a1 == RFill(s.alpha, it, i - 1, "l")
        a2 == RFill(a1, it, i - 1, "s")
        a3 == RFill(a2, i - 1, 2, "l")
        a4 == RFill(a3, i - 1, 2, "s")
    IN  [s EXCEPT
            !.tr = <<Call("project N"), Allreduce(a1, it, i - 1, "K"), Call("apply")>>
                     \o PCGNewZ
                     \o <<Allreduce(a3, i - 1, 2, "K"),
                          Call("axpy x"), Call("axpy r"), Call("project T"),
                          Call("precond")>>,
            !.alpha = RFill(a4, it, 1, "l"),
            !.pw = {s.plen - 1},
            !.zw = {s.zlen - 1, PCGAppendZ(s.zlen) - 1},
            !.aw = (IF i - 1 > 0 THEN {<<it, it + i - 2>>} ELSE {})
                     \cup {<<i - 1, i>>, <<it, it>>},
            !.ar = (IF i - 1 > 0 THEN {<<0, i - 2>>, <<it, it + i - 2>>} ELSE {})
                     \cup {<<i - 1, i>>, <<it, it>>},
            !.zlen = PCGAppendZ(@)]

\* the diagnostic line with a reduction of its own for the printed norm
PCGDiagnostic_Reduce(verbosity) ==
    IF verbosity > 2 THEN <<Ev("allreduce", 1, "U", FALSE), Call("print")>> ELSE <<>>

\* if(verbosity > 2) std::cout << "PCG: " << ...
PCGDiagnostic(verbosity) == IF verbosity > 2 THEN <<Call("print")>> ELSE <<>>

\* one pass of while(i <= it); conv: resRel / resInit <= tol; crash: what the
\* out-of-range z[i - 2] does once ++i has wrapped to 0
PCGIter(s, ex, n, conv, crash) ==
    IF s.bi - 1 < 0
    THEN \* MPI_Allreduce with a negative count: the call is refused and the
         \* default error handler ends the job; nothing returns
         [s EXCEPT !.tr = <<Call("project N"), Ev("allreduce", s.bi - 1, "K", FALSE)>>,
                   !.biters = @ + 1,
                   !.pc = "abort"]
    ELSE LET s1 == IF ex THEN PCGReduceExcluded(s) ELSE PCGReduceLocal(s)
             s2 == [s1 EXCEPT
                      !.tr = @ \o <<Ev("computeDot", 1, "U", ex)>>
                               \o PCGDiagnostic(s.verbosity),
                      !.biters = @ + 1]
             i1 == ToUShort(s.bi + 1)
         IN  IF conv THEN [s2 EXCEPT !.pc = "pcg_break"]
             ELSE IF ex THEN [s2 EXCEPT !.bi = i1]
             ELSE IF i1 - 2 < 0 /\ crash
                  THEN [s2 EXCEPT !.bi = i1, !.plen = @ + 1,
                                  !.tr = @ \o <<Call("allocateSingle p")>>,
                                  !.pc = "crash"]
                  ELSE [s2 EXCEPT !.bi = i1, !.plen = @ + 1,
                                  !.zw = @ \cup {i1 - 2},
                                  !.tr = @ \o <<Call("allocateSingle p"), Call("diag")>>]

\* return std::min(i, it);
PCGReturnValue(i) == Min(i, opt.it)

\* after the loop: the report, the solution, the releases, A.end
PCGExit(s) ==
    [s EXCEPT
        !.tr = <<Ev("convergence", s.bi, "-", FALSE), Call("computeSolution"),
                 Call("delete alpha"), Ev("clean z", s.zlen, "-", FALSE),
                 Ev("clean p", s.plen, "-", FALSE), Call("clean storage"),
                 Ev("end", s.allocate, "-", FALSE)>>,
        !.ret = PCGReturnValue(s.bi),
        !.left = IF s.pc = "pcg_break" THEN "break" ELSE "cap",
        !.pc = "done"]

(***************************************************************************)
(* The actions of CG and BCG, taken by all ranks together.                 *)
(***************************************************************************)
Fresh(s) == [s EXCEPT !.tr = <<>>]

\* what the dense routines and the block convergence check of a BCG pass can
\* report on the data of the run
BCGOutcomes == {"ppsv", "conv", "posv", "qr", "ok"}

Options(methods, caps, mus) ==
    [method : methods, schwarz_method : {0, 1, 2, 4},
     schwarz_coarse_correction : {0, 1}, variant : {0, 2},
     it : caps, mu : mus, enlarge : {1, 2}, outcomes : {BCGOutcomes},
     scratch : [1..2 -> {0, 1}], complex : {FALSE}]

Init ==
    /\ opt \in Options({"CG", "BCG"}, 0..MaxIt, 1..MaxMu)
    /\ rk = [r \in AllRanks |-> Idle]
    /\ gh = [NoGh EXCEPT !.markedAt = [nu \in 1..opt.mu |-> 0]]

\* what the monitor has recorded: the pass at which a column first met the
\* tolerance while it was still unconverged
Mark(markedAt, i, meets) ==
    [nu \in 1..Len(markedAt) |->
        IF markedAt[nu] = 0 /\ meets[nu] THEN i ELSE markedAt[nu]]

CGCall ==
    /\ opt.method = "CG"
    /\ \A r \in Ranks : rk[r].pc = "call"
    /\ rk' = [r \in Ranks |-> Account(CGEntry(Fresh(rk[r]), Excluded(r), LocalN(r)))]
    /\ UNCHANGED <<opt, gh>>

BCGCall ==
    /\ opt.method = "BCG"
    /\ \A r \in Ranks : rk[r].pc = "call"
    /\ \E qr \in {o \in BOOLEAN : o => "qr" \in opt.outcomes} :
          rk' = [r \in Ranks |-> Account(BCGEntry(Fresh(rk[r]), Excluded(r), LocalN(r), qr))]
    /\ UNCHANGED <<opt, gh>>

\* GMRES is declared in iterative.hpp and defined elsewhere: it returns some
\* iteration count, which the redirected method returns in turn
GMRESRun ==
    /\ \A r \in Ranks : rk[r].pc = "gmres"
    /\ \E g \in 0..MaxIt :
          /\ rk' = [r \in Ranks |-> [Fresh(rk[r]) EXCEPT !.ret = g, !.pc = "done"]]
          /\ gh' = [gh EXCEPT !.gmresRet = g]
    /\ UNCHANGED opt

CGPass ==
    /\ \A r \in Ranks : rk[r].pc = "cg_loop" /\ rk[r].i < opt.it
    /\ \E meets \in [1..opt.mu -> BOOLEAN] :
          /\ rk' = [r \in Ranks |->
                      Account(CGIter(Fresh(rk[r]), Excluded(r), LocalN(r), meets))]
          /\ gh' = [gh EXCEPT !.markedAt = Mark(@, rk["ord"].i + 1, meets)]
    /\ UNCHANGED opt

CGReturn ==
    /\ \A r \in Ranks : \/ rk[r].pc = "cg_break"
                        \/ rk[r].pc = "cg_loop" /\ ~(rk[r].i < opt.it)
    /\ rk' = [r \in Ranks |-> Account(TopReturn(CGExit(rk[r])))]
    /\ UNCHANGED <<opt, gh>>

BCGPass ==
    /\ \A r \in Ranks : /\ rk[r].pc = "bcg_loop"
                        /\ rk[r].bi <= opt.it
                        /\ rk[r].biters <= USHRT_MAX
    /\ \E o \in opt.outcomes, alt \in opt.outcomes :
          /\ rk' = [r \in Ranks |->
                      Account(BCGIter(Fresh(rk[r]), Excluded(r), LocalN(r),
                                      BCGOutcome(BCGInputs(rk[r].buf, Excluded(r)),
                                                 BCGInputs(rk["ord"].buf, Excluded("ord")),
                                                 o, alt)))]
          /\ gh' = [gh EXCEPT !.verdict = (o = "conv")]
    /\ UNCHANGED opt

BCGReturn ==
    /\ \A r \in Ranks : \/ rk[r].pc = "bcg_break"
                        \/ rk[r].pc = "bcg_loop" /\ ~(rk[r].bi <= opt.it)
    /\ rk' = [r \in Ranks |-> Account(BCGExit(rk[r]))]
    /\ UNCHANGED <<opt, gh>>

Next ==
    \/ CGCall
    \/ BCGCall
    \/ GMRESRun
    \/ CGPass
    \/ CGReturn
    \/ BCGPass
    \/ BCGReturn

Spec == Init /\ [][Next]_vars

(***************************************************************************)
(* The actions of PCG.                                                     *)
(***************************************************************************)
PCGOptions(caps) ==
    [method : {"PCG"}, it : caps, mu : {1}, layout : {"contiguous", "pointers"},
     verbosity : {0, 3}, scratch : [1..2 -> {0, 1}]]

PCGInit ==
    /\ opt \in PCGOptions(0..MaxIt)
    /\ rk = [r \in AllRanks |-> [Idle EXCEPT !.verbosity = opt.verbosity]]
    /\ gh = NoGh

PCGCall ==
    /\ opt.method = "PCG"
    /\ \A r \in Ranks : rk[r].pc = "call"
    /\ rk' = [r \in Ranks |-> Account(PCGEntry(Fresh(rk[r]), Excluded(r), LocalN(r)))]
    /\ UNCHANGED <<opt, gh>>

PCGPass ==
    /\ \A r \in Ranks : rk[r].pc = "pcg_loop" /\ rk[r].bi <= opt.it
    /\ \E conv \in BOOLEAN, crash \in BOOLEAN :
          /\ rk' = [r \in Ranks |->
                      Account(PCGIter(Fresh(rk[r]), Excluded(r), LocalN(r), conv, crash))]
          /\ gh' = [gh EXCEPT !.verdict = conv]
    /\ UNCHANGED opt

PCGReturn ==
    /\ \A r \in Ranks : \/ rk[r].pc = "pcg_break"
                        \/ rk[r].pc = "pcg_loop" /\ ~(rk[r].bi <= opt.it)
    /\ rk' = [r \in Ranks |-> Account(PCGExit(rk[r]))]
    /\ UNCHANGED <<opt, gh>>

PCGNext ==
    \/ PCGCall
    \/ PCGPass
    \/ PCGReturn

SpecPCG == PCGInit /\ [][PCGNext]_vars

(***************************************************************************)
(* The same methods at the largest cap an unsigned short holds, run by one *)
(* ordinary rank on a system whose dense factorizations never break down.  *)
(***************************************************************************)
WideInit ==
    /\ opt \in [method : {"CG", "BCG"}, schwarz_method : {2},
                schwarz_coarse_correction : {1}, variant : {0},
                it : {USHRT_MAX}, mu : {1}, enlarge : {1},
                outcomes : {{"conv", "ok"}}, scratch : {<<1, 0>>}, complex : {FALSE}]
    /\ rk = [r \in {"ord"} |-> Idle]
    /\ gh = [NoGh EXCEPT !.markedAt = [nu \in 1..opt.mu |-> 0]]

WideNext ==
    \/ CGCall
    \/ BCGCall
    \/ CGPass
    \/ CGReturn
    \/ BCGPass
    \/ BCGReturn

SpecWide == WideInit /\ [][WideNext]_vars

WidePCGInit ==
    /\ opt \in [method : {"PCG"}, it : {USHRT_MAX}, mu : {1},
                layout : {"contiguous"}, verbosity : {0}, scratch : {<<1, 0>>}]
    /\ rk = [r \in {"ord"} |-> Idle]
    /\ gh = NoGh

SpecWidePCG == WidePCGInit /\ [][PCGNext]_vars

(***************************************************************************)
(* Two PCG runs of the same solve side by side: every rank r of the first  *)
(* has a twin in the second, given the same reduced values, the other      *)
(* verbosity level and nothing else different.                             *)
(***************************************************************************)
OtherVerbosity(v) == 3 - v

PCGPairInit ==
    /\ opt \in PCGOptions(0..MaxIt)
    /\ rk = [r \in {"excl", "ord", Twin("excl"), Twin("ord")} |->
                [Idle EXCEPT !.verbosity = IF r \in {"excl", "ord"}
                                           THEN opt.verbosity
                                           ELSE OtherVerbosity(opt.verbosity)]]
    /\ gh = NoGh

SpecPCGPair == PCGPairInit /\ [][PCGNext]_vars

(***************************************************************************)
(* CG, BCG and PCG together.                                               *)
(***************************************************************************)
SolversInit == Init \/ PCGInit

SolversNext == Next \/ PCGNext

SpecSolvers == SolversInit /\ [][SolversNext]_vars

(***************************************************************************)
(* CG under every cap an unsigned short can hold, followed for its first   *)
(* MaxStep passes.                                                         *)
(***************************************************************************)
SentinelInit ==
    /\ opt \in [method : {"CG"}, schwarz_method : {2},
                schwarz_coarse_correction : {1}, variant : {0},
                it : 0..USHRT_MAX, mu : {1}, enlarge : {1},
                outcomes : {{"conv", "ok"}}, scratch : {<<1, 0>>}, complex : {FALSE}]
    /\ rk = [r \in {"ord"} |-> Idle]
    /\ gh = [NoGh EXCEPT !.markedAt = [nu \in 1..opt.mu |-> 0]]

SentinelPass ==
    /\ rk["ord"].i < MaxStep
    /\ CGPass

SentinelNext ==
    \/ CGCall
    \/ SentinelPass
    \/ CGReturn

SpecSentinel == SentinelInit /\ [][SentinelNext]_vars

(***************************************************************************)
(* CG, BCG and PCG with K real or complex.                                  *)
(***************************************************************************)
HeapInit ==
    \/ /\ opt \in [method : {"CG", "BCG"}, schwarz_method : {1, 2},
                    schwarz_coarse_correction : {1}, variant : {0, 2},
                    it : 0..MaxIt, mu : 1..MaxMu, enlarge : {1, 2},
                    outcomes : {BCGOutcomes}, scratch : {<<1, 0>>},
                    complex : BOOLEAN]
       /\ rk = [r \in AllRanks |-> Idle]
       /\ gh = [NoGh EXCEPT !.markedAt = [nu \in 1..opt.mu |-> 0]]
    \/ PCGInit

SpecHeap == HeapInit /\ [][SolversNext]_vars

(***************************************************************************)
(* C2: in PCG, in every pass i of 1..it, the excluded rank and the         *)
(* non-excluded ranks issue the same collectives (a reduction of i - 1     *)
(* elements, a reduction of 2 elements, a computeDot), the excluded rank   *)
(* contributes only zeros to the two reductions, and all ranks leave the   *)
(* loop at the same pass.                                                  *)
(***************************************************************************)
C2_PCGSameCollectives ==
    \A r \in Ranks :
        (opt.method = "PCG" /\ rk["ord"].biters <= opt.it /\ rk["ord"].pc # "crash") =>
            /\ Collectives(rk[r].tr) = Collectives(rk["ord"].tr)
            /\ rk[r].pc = rk["ord"].pc
            /\ rk[r].bi = rk["ord"].bi
            /\ rk[r].biters = rk["ord"].biters
            /\ rk[r].ret = rk["ord"].ret
            /\ Excluded(r) => ZeroContributions(rk[r].tr)
            /\ (rk[r].pc \in {"pcg_loop", "pcg_break"} /\ rk[r].biters > 0) =>
                  Collectives(rk[r].tr) =
                      <<(<<"allreduce", rk[r].biters - 1, "K">>),
                        (<<"allreduce", 2, "K">>),
                        (<<"computeDot", 1, "U">>)>>

\* the excluded rank has left the loop by break in a pass after the first,
\* together with the others
C2_Witness ==
    /\ opt.method = "PCG"
    /\ \A r \in Ranks : rk[r].pc = "pcg_break" /\ rk[r].bi = MaxIt
    /\ Len(Collectives(rk["excl"].tr)) = 3
    /\ rk["excl"].tr[2].cnt = MaxIt - 1 /\ rk["excl"].tr[2].zero

(***************************************************************************)
(* C3: in CG and BCG the collective reductions do not depend on the        *)
(* excluded flag or on the local size n: at every point of a run the       *)
(* excluded rank, the non-excluded rank with n = 0 and the ordinary rank   *)
(* have issued the same collectives with the same element counts in their  *)
(* current step, stand at the same place with the same loop counters, have *)
(* performed the same number of passes and have returned the same value.   *)
(***************************************************************************)
C3_SameReductionsAndCounts ==
    \A r \in Ranks :
        /\ Collectives(rk[r].tr) = Collectives(rk["ord"].tr)
        /\ rk[r].pc = rk["ord"].pc
        /\ rk[r].i = rk["ord"].i /\ rk[r].bi = rk["ord"].bi
        /\ rk[r].iters = rk["ord"].iters /\ rk[r].biters = rk["ord"].biters
        /\ rk[r].ret = rk["ord"].ret

\* the recycling CG has made a pass with both of its i * mu reductions, on
\* every rank
C3_Witness ==
    /\ opt.method = "CG" /\ opt.variant = 2 /\ opt.mu = MaxMu
    /\ \A r \in Ranks :
          /\ rk[r].iters >= 2
          /\ Len(Collectives(rk[r].tr)) = 4
          /\ Collectives(rk[r].tr)[1] = <<"allreduce", (rk[r].iters - 1) * opt.mu, "U">>

(***************************************************************************)
(* C4: a CG that was not redirected to GMRES returns the number of passes  *)
(* of its loop it performed, capped at it: min(k, it) after k passes,      *)
(* whether the loop ended by convergence or at the cap.                    *)
(***************************************************************************)
C4_ReturnsPassesPerformed ==
    \A r \in Ranks :
        (opt.method = "CG" /\ rk[r].pc = "done" /\ rk[r].ngmres = 0)
            => rk[r].ret = Min(rk[r].iters, opt.it)

(***************************************************************************)
(* C5: the returned count equals the cap exactly when the method did not   *)
(* converge, and is below the cap exactly when it converged (CG: every     *)
(* column marked converged; BCG, PCG: the last check of the loop passed).  *)
(***************************************************************************)
Converged(r) ==
    IF rk[r].ncg > 0
    THEN \A nu \in 1..Len(gh.markedAt) : gh.markedAt[nu] >= 1
    ELSE gh.verdict

C5_CapDetectsNonConvergence ==
    \A r \in Ranks :
        (rk[r].pc = "done" /\ rk[r].ngmres = 0)
            => /\ (rk[r].ret = opt.it) <=> ~Converged(r)
               /\ (rk[r].ret < opt.it) <=> Converged(r)

(***************************************************************************)
(* C6: whenever a CG that was not redirected returns a count below the cap *)
(* it, every one of the mu columns has been marked converged by the        *)
(* monitor, for every cap in 1..65535.                                     *)
(***************************************************************************)
C6_BelowCapMeansConverged ==
    \A r \in Ranks :
        (rk[r].pc = "done" /\ rk[r].ncg > 0 /\ rk[r].cgret < opt.it)
            => \A nu \in 1..Len(gh.markedAt) : gh.markedAt[nu] >= 1

(***************************************************************************)
(* C7: a BCG that finishes its own loop returns the number of block passes *)
(* performed, capped at m[0]; a BCG that fell back to CG returns exactly   *)
(* what that CG call returned.                                             *)
(***************************************************************************)
C7_BCGReturn ==
    \A r \in Ranks :
        (opt.method = "BCG" /\ rk[r].pc = "done" /\ rk[r].ngmres = 0)
            => IF rk[r].ncg = 0
               THEN rk[r].ret = Min(rk[r].biters, opt.it)
               ELSE rk[r].ret = rk[r].cgret

(***************************************************************************)
(* C8: PCG enters the body of its loop at most it times; it leaves the     *)
(* loop at the first pass i of 1..it whose residual ratio is within the    *)
(* tolerance and returns i, and otherwise makes exactly it passes and      *)
(* returns it; with it = 0 no pass is made and 0 is returned.              *)
(***************************************************************************)
C8_PCGLoopBound ==
    \A r \in Ranks :
        opt.method = "PCG" =>
            /\ rk[r].biters <= opt.it
            /\ rk[r].pc \notin {"crash", "abort"}
            /\ rk[r].pc = "pcg_break" => gh.verdict /\ rk[r].bi = rk[r].biters
            /\ (rk[r].pc = "pcg_loop" /\ rk[r].biters > 0) => ~gh.verdict
            /\ rk[r].pc = "done" =>
                  IF gh.verdict
                  THEN rk[r].ret = rk[r].biters /\ rk[r].biters >= 1
                  ELSE rk[r].ret = opt.it /\ rk[r].biters = opt.it

(***************************************************************************)
(* C9: with schwarz_method in {0, 1, 4} or schwarz_coarse_correction 0,    *)
(* CG and BCG do nothing but call GMRES with the same arguments (no        *)
(* allocation, no start, GMV, apply or end before it) and return what it   *)
(* returns; in every other configuration they never call GMRES.            *)
(***************************************************************************)
C9_RedirectToGMRES ==
    LET redirected == \/ opt.schwarz_method \in {0, 1, 4}
                      \/ opt.schwarz_coarse_correction = 0
    IN  \A r \in Ranks :
          /\ ~redirected => rk[r].ngmres = 0
          /\ (redirected /\ rk[r].pc # "call") =>
                /\ rk[r].ngmres = 1 /\ rk[r].ncg = 0
                /\ rk[r].iters = 0 /\ rk[r].biters = 0
                /\ rk[r].pc \in {"gmres", "done"}
                /\ rk[r].pc = "gmres" => rk[r].tr = <<Ev("GMRES", opt.mu, "-", FALSE)>>
                /\ rk[r].pc = "done" => rk[r].ret = gh.gmresRet

\* a BCG on Schwarz method 4 has returned what GMRES returned
C9_Witness ==
    /\ opt.method = "BCG" /\ opt.schwarz_method = 4
    /\ opt.schwarz_coarse_correction = 1
    /\ \A r \in Ranks : rk[r].pc = "done" /\ rk[r].ret = gh.gmresRet /\ rk[r].ret = MaxIt

(***************************************************************************)
(* C10: every breakdown of BCG ends in the CG fallback; BCG returns no     *)
(* error value, enters CG at most once, and ends after at most m[0] block  *)
(* passes plus at most one CG run of at most it passes.                    *)
(***************************************************************************)
C10_BCGBoundedWork ==
    \A r \in Ranks :
        /\ rk[r].biters <= opt.it
        /\ rk[r].iters <= opt.it
        /\ rk[r].ncg <= 1
        /\ rk[r].pc = "done" => rk[r].ret >= 0

(***************************************************************************)
(* CG on numbers.  One ordinary rank, one right-hand side (mu = 1), the    *)
(* operator a dense symmetric matrix, the preconditioner and the scaling   *)
(* the identity.  A number is a fraction <<numerator, denominator>> in     *)
(* lowest terms with a positive denominator; <<0, 0>> is what a division   *)
(* by zero yields and what every operation on it yields again (the NaN or  *)
(* infinity of the floating-point type).  Rounding is not modelled.        *)
(***************************************************************************)
RECURSIVE GCD(_, _)
GCD(a, b) == IF b = 0 THEN a ELSE GCD(b, a % b)

Abs(a) == IF a < 0 THEN -a ELSE a

NaN == <<0, 0>>

IsFinite(q) == q[2] # 0

Q(n, d) ==
    IF d = 0 THEN NaN
    ELSE LET g == GCD(Abs(n), Abs(d))
             e == IF d < 0 THEN -g ELSE g
         IN  <<n \div e, d \div e>>

QInt(k) == <<k, 1>>

\* the sum over the least common denominator, the product with the common
\* factors taken out first: the same fractions, in smaller integers
QAdd(a, b) ==
    IF IsFinite(a) /\ IsFinite(b)
    THEN LET g == GCD(a[2], b[2])
         IN  Q(a[1] * (b[2] \div g) + b[1] * (a[2] \div g), (a[2] \div g) * b[2])
    ELSE NaN

QMul(a, b) ==
    IF IsFinite(a) /\ IsFinite(b)
    THEN LET g == GCD(Abs(a[1]), b[2])
             h == GCD(Abs(b[1]), a[2])
         IN  Q((a[1] \div g) * (b[1] \div h), (a[2] \div h) * (b[2] \div g))
    ELSE NaN

QNeg(a) == <<-a[1], a[2]>>

\* a / b; with b = 0 the result is not finite
QDiv(a, b) ==
    IF IsFinite(a) /\ IsFinite(b) /\ b[1] # 0
    THEN QMul(a, Q(b[2], b[1]))
    ELSE NaN

\* a <= b, false as soon as one of them is not finite
QLeq(a, b) == IsFinite(a) /\ IsFinite(b) /\ a[1] * b[2] <= b[1] * a[2]

\* Blas<K>::dot(&n, u, &i__1, v, &i__1)
Dot(u, v) ==
    LET RECURSIVE sum(_)
        sum(k) == IF k = 0 THEN QInt(0) ELSE QAdd(sum(k - 1), QMul(u[k], v[k]))
    IN  sum(Len(u))

\* Blas<K>::axpy(&n, &a, u, &i__1, v, &i__1): v <- v + a u
Axpy(a, u, v) == [k \in 1..Len(v) |-> QAdd(v[k], QMul(a, u[k]))]

\* Blas<K>::axpby(n, a, u, 1, b, v, 1): v <- a u + b v
Axpby(a, u, b, v) == [k \in 1..Len(v) |-> QAdd(QMul(a, u[k]), QMul(b, v[k]))]

\* A.GMV(u, v, mu): v <- A u
GMV(A, u) == [k \in 1..Len(A) |-> Dot(A[k], u)]

\* q * 10^k <= 1, the power taken one factor at a time
RECURSIVE ScaledLeqOne(_, _)
ScaledLeqOne(q, k) ==
    IF ~QLeq(q, QInt(1)) THEN FALSE
    ELSE IF k = 0 THEN TRUE
    ELSE ScaledLeqOne(QMul(q, QInt(10)), k - 1)

\* The state of the rank: the vectors x, r, p, z and trash of CG, dir[0] and
\* dir[mu] (rho and pAp), the square of res (normSq) and of the residual norm
\* handed to the monitor (resSq), the stored directions P and their stored
\* products W = p.Ap, and zeroDen, the number of step lengths with a zero
\* denominator that were applied to x.
NumIdle ==
    [pc |-> "call", i |-> 0, conv |-> <<>>, iters |-> 0, ret |-> -1,
     x |-> opt.x0, r |-> <<>>, p |-> <<>>, z |-> <<>>, trash |-> <<>>,
     rho |-> QInt(0), pAp |-> QInt(0), normSq |-> QInt(0), resSq |-> QInt(0),
     P |-> <<>>, W |-> <<>>, zeroDen |-> 0]

\* the monitor's test on one column: res / norm <= tol, on the squares
MeetsTolerance(resSq, normSq) ==
    ScaledLeqOne(QDiv(resSq, normSq), 2 * opt.tolDigits)

\* CG.hpp lines 53-67 on numbers
NumEntry(s) ==
    LET z0 == GMV(opt.A, s.x)
        r0 == Axpy(QInt(-1), z0, opt.b)
        p0 == r0
        t0 == p0
    IN  [s EXCEPT !.z = z0, !.r = r0, !.p = p0, !.trash = t0,
                  !.rho = Dot(t0, p0), !.normSq = Dot(t0, p0),
                  !.conv = <<ToShort(-opt.it)>>,
                  !.i = 0, !.pc = "cg_loop"]

\* the step length with its numerator left at 1
CGStepLength_UnitNumerator(rho, pAp) == QDiv(QInt(1), pAp)

\* trash[nu] = dir[nu] / dir[mu + nu];
CGStepLength(rho, pAp) == QDiv(rho, pAp)

\* the direction p made conjugate to the i stored ones: the coefficients
\* -(Ap . p_k) / (p_k . A p_k) and the gemv that adds their combination
CGOrthogonalize(p, Ap, P, W) ==
    LET RECURSIVE add(_)
        add(k) == IF k = 0 THEN p
                  ELSE Axpy(QDiv(QNeg(Dot(Ap, P[k])), W[k]), P[k], add(k - 1))
    IN  add(Len(P))

\* one pass of while(i < it) on numbers
NumIter(s) ==
    LET rho  == Dot(s.r, s.trash)
        z1   == GMV(opt.A, s.p)
        p1   == IF s.i # 0 THEN CGOrthogonalize(s.p, z1, s.P, s.W) ELSE s.p
        z2   == IF s.i # 0 THEN GMV(opt.A, p1) ELSE z1
        pAp  == Dot(z2, p1)
        i1   == s.i + 1
        upd  == Unconverged(s.conv[1])
        a    == CGStepLength(rho, pAp)
        x1   == IF upd THEN Axpy(a, p1, s.x) ELSE s.x
        r1   == IF upd THEN Axpy(QNeg(a), z2, s.r) ELSE s.r
        z3   == r1
        beta == QDiv(Dot(r1, z3), rho)
        res  == Dot(z3, z3)
        c1   == CheckConvergence(s.conv, i1, <<MeetsTolerance(res, s.normSq)>>)
        out  == NoneUnconverged(c1)
    IN  [s EXCEPT !.rho = rho, !.pAp = pAp, !.x = x1, !.r = r1, !.z = z3,
                  !.trash = z3, !.p = Axpby(QInt(1), z3, beta, p1),
                  !.P = Append(@, p1), !.W = Append(@, pAp),
                  !.resSq = res, !.conv = c1, !.iters = @ + 1,
                  !.zeroDen = IF upd /\ pAp = QInt(0) THEN @ + 1 ELSE @,
                  !.i = IF out THEN CGBreakIndex(i1) ELSE i1,
                  !.pc = IF out THEN "cg_break" ELSE "cg_loop"]

NumExit(s) == [s EXCEPT !.ret = CGReturnValue(s.i), !.pc = "done"]

\* the systems: three symmetric positive definite matrices, right-hand
\* sides with entries 0, 1, 2, a zero initial guess, tol = 1e-10
Matrices ==
    {<<(<<QInt(4), QInt(1)>>), (<<QInt(1), QInt(3)>>)>>,
     <<(<<QInt(2), QInt(0)>>), (<<QInt(0), QInt(2)>>)>>,
     <<(<<QInt(2), QInt(1)>>), (<<QInt(1), QInt(2)>>)>>}

NumInit ==
    /\ opt \in [method : {"CG"}, A : Matrices,
                b : [1..2 -> {QInt(0), QInt(1), QInt(2)}],
                x0 : {<<QInt(0), QInt(0)>>},
                it : 0..MaxIt, tolDigits : {10}]
    /\ rk = [r \in {"ord"} |-> NumIdle]
    /\ gh = NoGh

NumCall ==
    /\ rk["ord"].pc = "call"
    /\ rk' = [r \in Ranks |-> NumEntry(rk[r])]
    /\ UNCHANGED <<opt, gh>>

NumPass ==
    /\ rk["ord"].pc = "cg_loop" /\ rk["ord"].i < opt.it
    /\ rk' = [r \in Ranks |-> NumIter(rk[r])]
    /\ UNCHANGED <<opt, gh>>

NumReturn ==
    /\ \/ rk["ord"].pc = "cg_break"
       \/ rk["ord"].pc = "cg_loop" /\ ~(rk["ord"].i < opt.it)
    /\ rk' = [r \in Ranks |-> NumExit(rk[r])]
    /\ UNCHANGED <<opt, gh>>

NumNext ==
    \/ NumCall
    \/ NumPass
    \/ NumReturn

SpecNum == NumInit /\ [][NumNext]_vars

(***************************************************************************)
(* The direct solvers of src/SuiteSparse.hpp: one object of class          *)
(* SuiteSparse (coarse operator) or SuiteSparseSub (subdomain solver), and *)
(* a caller that factorizes and solves.  CHOLMOD and UMFPACK are the       *)
(* collaborators: each of their calls reports success or failure.          *)
(*   c, W, tmp   whether _c, _W, _tmp are set                              *)
(*   factor  the factor the object holds (_L or _numeric): "null", "ok",   *)
(*           or "failed" (a CHOLMOD factor whose factorization failed)     *)
(*   x       what the caller's vector holds: "rhs", "solution", or         *)
(*           "garbage" (neither)                                           *)
(*   status  what the collaborator reported in the last call ("": nothing  *)
(*           yet), seen what that call handed back to the caller           *)
(*   nfact, nsolve   the calls of numfact and solve so far                 *)
(*   built   how often numfact built a factorization                       *)
(***************************************************************************)
SolverIdle ==
    [pc |-> "call", c |-> FALSE, W |-> FALSE, tmp |-> FALSE, factor |-> "null",
     x |-> "rhs", status |-> "", seen |-> "", op |-> "",
     nfact |-> 0, nsolve |-> 0, built |-> 0,
     own |-> {}, asked |-> <<>>, via |-> "", freed |-> {}]

\* numfact and solve are declared void and throw nothing: the caller is
\* handed nothing, whatever the collaborator reported
Returned(status) == "nothing"

\* the CHOLMOD branch: cholmod_analyze, cholmod_factorize, the dense headers
FactorizeCholmod(s, analyze, factorize) ==
    [s EXCEPT !.c = TRUE, !.tmp = TRUE, !.built = @ + 1,
              !.own = @ \cup {"c", "b", "x", "tmp"}
                        \cup (IF analyze = "fail" THEN {} ELSE {"L"}),
              !.factor = IF analyze = "fail" THEN "null"
                         ELSE IF factorize = "fail" THEN "failed" ELSE "ok",
              !.status = IF analyze = "fail" \/ factorize = "fail" THEN "fail" ELSE "ok"]

\* the UMFPACK branch: _numeric = NULL, umfpack_symbolic, umfpack_numeric
FactorizeUmfpack(s, symbolic, numeric) ==
    [s EXCEPT !.W = TRUE, !.tmp = TRUE, !.built = @ + 1,
              !.own = @ \cup {"control", "pattern", "tmp"}
                        \cup (IF symbolic = "fail" \/ numeric = "fail" THEN {}
                              ELSE {"numeric"}),
              !.factor = IF symbolic = "fail" \/ numeric = "fail" THEN "null" ELSE "ok",
              !.status = IF symbolic = "fail" \/ numeric = "fail" THEN "fail" ELSE "ok"]

\* a guard that looks at the CHOLMOD handle alone
NumfactGuard_CholmodOnly(s) == ~s.c

\* if(!_c && !_W)
NumfactGuard(s) == ~s.c /\ ~s.W

\* S == 'S' in SuiteSparse; A->_sym && !std::is_same<K, std::complex<double>>
\* ::value in SuiteSparseSub, sym being the flag of the matrix of this call
NumfactCholesky(sym) ==
    IF opt.class = "SuiteSparse" THEN opt.symmetric ELSE sym /\ ~opt.complex

\* SuiteSparse::numfact<S> and SuiteSparseSub::numfact; sym: A->_sym; first,
\* second: what the two calls of the collaborator report
Numfact(s, sym, first, second) ==
    LET t == [s EXCEPT !.nfact = @ + 1, !.op = "numfact", !.status = "",
                       !.asked = Append(@, sym)]
        u == IF opt.class = "SuiteSparseSub" /\ ~NumfactGuard(s) THEN t
             ELSE IF NumfactCholesky(sym) THEN FactorizeCholmod(t, first, second)
             ELSE FactorizeUmfpack(t, first, second)
    IN  [u EXCEPT !.seen = Returned(u.status), !.pc = "idle"]

\* the forms of solve: in place through _tmp (both classes), n right-hand
\* sides in place and out of place (SuiteSparseSub)
SolveForms ==
    IF opt.class = "SuiteSparse" THEN {"inplace"} ELSE {"inplace", "multiple", "outofplace"}

\* solve; outcome: what cholmod_solve2 or umfpack_wsolve reports when it is
\* given a factor (without one it reports failure)
Solve(s, form, outcome) ==
    LET st == IF s.factor = "null" THEN "fail" ELSE outcome
        ok == st = "ok" /\ s.factor = "ok"
    IN  [s EXCEPT !.nsolve = @ + 1, !.op = "solve", !.status = st,
                  !.seen = Returned(st),
                  !.via = IF s.c THEN "cholmod" ELSE "umfpack",
                  !.own = IF s.c /\ st = "ok" THEN @ \cup {"Y", "E"} ELSE @,
                  !.x = IF form = "outofplace"
                        THEN (IF ok THEN "solution" ELSE IF st = "ok" THEN "garbage" ELSE @)
                        ELSE (IF ok THEN "solution" ELSE "garbage")]

\* ~SuiteSparseSub() and ~SuiteSparse(): the members handed to a release
Destroy(s) ==
    [s EXCEPT !.freed = {"tmp"}
                          \cup (IF s.c THEN {"L", "b", "x", "Y", "E", "c"}
                                ELSE {"pattern", "control", "numeric"}),
              !.op = "destroy", !.pc = "destroyed"]

SolverInit ==
    /\ opt \in [method : {"direct"}, class : {"SuiteSparse", "SuiteSparseSub"},
                symmetric : BOOLEAN, complex : BOOLEAN]
    /\ rk = [r \in {"ord"} |-> SolverIdle]
    /\ gh = NoGh

SolverNumfact ==
    /\ opt.method = "direct" /\ rk["ord"].pc # "destroyed"
    /\ rk["ord"].nfact + rk["ord"].nsolve < MaxOps
    /\ opt.class = "SuiteSparse" => rk["ord"].nfact = 0
    /\ \E sym \in {s \in BOOLEAN : opt.class = "SuiteSparse" => s = opt.symmetric},
          first \in {"ok", "fail"}, second \in {"ok", "fail"} :
          rk' = [r \in Ranks |-> Numfact(rk[r], sym, first, second)]
    /\ UNCHANGED <<opt, gh>>

SolverSolve ==
    /\ opt.method = "direct" /\ rk["ord"].pc # "destroyed"
    /\ rk["ord"].nfact >= 1
    /\ rk["ord"].nfact + rk["ord"].nsolve < MaxOps
    /\ \E form \in SolveForms, outcome \in {"ok", "fail"} :
          rk' = [r \in Ranks |-> Solve([rk[r] EXCEPT !.x = "rhs"], form, outcome)]
    /\ UNCHANGED <<opt, gh>>

SolverDestroy ==
    /\ opt.method = "direct" /\ rk["ord"].pc # "destroyed"
    /\ rk' = [r \in Ranks |-> Destroy(rk[r])]
    /\ UNCHANGED <<opt, gh>>

SolverNext ==
    \/ SolverNumfact
    \/ SolverSolve
    \/ SolverDestroy

SpecSolver == SolverInit /\ [][SolverNext]_vars

(***************************************************************************)
(* C11: over a CG, BCG or PCG invocation that is not redirected to GMRES,  *)
(* fallbacks from BCG to CG included, the calls of A.start and A.end       *)
(* alternate, beginning with start and ending with end; every end is given *)
(* what the start before it returned; and no GMV, apply, project or        *)
(* precond is called outside a start/end pair.                             *)
(***************************************************************************)
C11_StartEndAlternate ==
    \A r \in Ranks :
        LET a == rk[r].acct
        IN  /\ a.unpaired = 0
            /\ a.wrongArg = 0
            /\ a.outside = 0
            /\ a.starts = a.ends + (IF a.open THEN 1 ELSE 0)
            /\ (rk[r].pc = "done" /\ rk[r].ngmres = 0) => (~a.open /\ a.starts >= 1)
            /\ (rk[r].pc \notin {"call", "gmres", "done"}) => a.open

\* a BCG that fell back to CG inside its loop has returned, after two pairs
\* whose starts returned different values
C11_Witness ==
    /\ opt.method = "BCG" /\ opt.scratch = <<1, 0>>
    /\ \A r \in Ranks :
          /\ rk[r].pc = "done" /\ rk[r].biters >= 1 /\ rk[r].iters >= 1
          /\ rk[r].acct.starts = 2 /\ rk[r].acct.ends = 2

(***************************************************************************)
(* C12: a CG, BCG or PCG call that is not redirected to GMRES makes the    *)
(* method-level convergence report exactly once, after its loop has ended  *)
(* (after a BCG fallback: the report of the fallback CG), and the          *)
(* iteration number given to the report exceeds the cap exactly when the   *)
(* loop ended at the cap without convergence.                              *)
(***************************************************************************)
C12_OneReportAfterLoop ==
    \A r \in Ranks :
        LET a == rk[r].acct
        IN  /\ rk[r].pc # "done" => a.reports = 0
            /\ (rk[r].pc = "done" /\ rk[r].ngmres = 0) =>
                  /\ a.reports = 1
                  /\ (a.reported > opt.it) <=> (rk[r].left = "cap")
                  /\ (rk[r].left = "cap") => ~Converged(r)

\* a BCG that fell back to CG inside its loop has returned after the CG
\* reached the cap without convergence
C12_Witness ==
    /\ opt.method = "BCG" /\ opt.it = MaxIt
    /\ \A r \in Ranks :
          /\ rk[r].pc = "done" /\ rk[r].biters >= 1 /\ rk[r].iters = opt.it
          /\ rk[r].acct.reports = 1 /\ rk[r].acct.reported = opt.it + 1

(***************************************************************************)
(* C13: the verbosity level does not steer PCG: two runs that differ in    *)
(* the verbosity only make the same operator calls and collectives in      *)
(* every step, the same number of passes, and return the same value with   *)
(* the same updates of x; only the diagnostic line differs.                *)
(***************************************************************************)
Silent(tr) == SelectSeq(tr, LAMBDA e : e.op # "print")

C13_VerbosityObservational ==
    \A r \in {"excl", "ord"} :
        LET a == rk[r]
            b == rk[Twin(r)]
        IN  /\ a.verbosity # b.verbosity
            /\ Silent(a.tr) = Silent(b.tr)
            /\ a.pc = b.pc /\ a.bi = b.bi /\ a.biters = b.biters
            /\ a.ret = b.ret /\ a.left = b.left
            /\ a.alpha = b.alpha /\ a.zlen = b.zlen /\ a.plen = b.plen
            /\ a.acct = b.acct

\* one of the two runs has printed its diagnostic in the pass it converged
\* in, the other has not
C13_Witness ==
    /\ rk["ord"].pc = "pcg_break" /\ rk["ord"].bi = MaxIt
    /\ rk[Twin("ord")].pc = "pcg_break"
    /\ \E k \in 1..Len(rk[Twin("ord")].tr) : rk[Twin("ord")].tr[k].op = "print"
    /\ rk["ord"].tr = Silent(rk["ord"].tr)

(***************************************************************************)
(* C14: for an all-zero right-hand side and a zero initial guess the       *)
(* method returns after 0 or 1 pass with x still zero and the residual     *)
(* exactly zero, and applies to x no step length that is a quotient with a *)
(* zero denominator.                                                       *)
(***************************************************************************)
ZeroVector == <<QInt(0), QInt(0)>>

C14_ZeroRightHandSide ==
    \A r \in Ranks :
        (opt.b = ZeroVector /\ opt.x0 = ZeroVector) =>
            /\ rk[r].zeroDen = 0
            /\ rk[r].iters <= 1
            /\ rk[r].pc = "done" => (rk[r].x = ZeroVector /\ rk[r].r = ZeroVector)

(***************************************************************************)
(* C15: on A = [[4, 1], [1, 3]], b = [1, 2], x0 = [0, 0], tol = 1e-10,     *)
(* identity preconditioner, no scaling, one rank, mu = 1, CG converges in  *)
(* at most 2 passes and leaves x = [1/11, 7/11].                           *)
(***************************************************************************)
C15_TwoByTwo ==
    \A r \in Ranks :
        (/\ opt.A = <<(<<QInt(4), QInt(1)>>), (<<QInt(1), QInt(3)>>)>>
         /\ opt.b = <<QInt(1), QInt(2)>>
         /\ opt.x0 = ZeroVector
         /\ opt.it >= 2)
            => /\ rk[r].iters <= 2
               /\ rk[r].pc = "done" =>
                     /\ rk[r].x = <<Q(1, 11), Q(7, 11)>>
                     /\ NoneUnconverged(rk[r].conv)
                     /\ rk[r].ret <= 2

\* the run on that system has returned after its second pass
C15_Witness ==
    /\ opt.A = <<(<<QInt(4), QInt(1)>>), (<<QInt(1), QInt(3)>>)>>
    /\ opt.b = <<QInt(1), QInt(2)>> /\ opt.it = MaxIt
    /\ rk["ord"].pc = "done" /\ rk["ord"].iters = 2
    /\ rk["ord"].x = <<Q(1, 11), Q(7, 11)>>

(***************************************************************************)
(* C16: a failure reported by the direct solver is handed on to the caller *)
(* of numfact or solve; and after a failed factorization no later solve    *)
(* treats the object as factorized: it reports failure too and does not    *)
(* pass off anything as a solution.                                        *)
(***************************************************************************)
C16_FailurePropagated ==
    \A r \in Ranks :
        /\ rk[r].status = "fail" => rk[r].seen = "fail"
        /\ (rk[r].op = "solve" /\ rk[r].factor # "ok") =>
              (rk[r].seen = "fail" /\ rk[r].x = "rhs")

C18_SentinelDistinct ==
    \A r \in Ranks : \A nu \in 1..Len(rk[r].conv) :
        /\ (rk[r].pc = "cg_loop" /\ rk[r].i = 0) =>
              /\ rk[r].conv[nu] < 0
              /\ rk[r].conv[nu] = -opt.it
              /\ \A k \in 0..MaxIt : k < opt.it => rk[r].conv[nu] # ToShort(k)
        /\ (rk[r].pc \in {"cg_loop", "cg_break"} /\ gh.markedAt[nu] = 0) =>
              rk[r].conv[nu] = -opt.it

(***************************************************************************)
(* C20: on a non-excluded rank, at the start of iteration i of PCG the     *)
(* lists z and p each hold exactly i entries; every z[k], p[k], alpha[k]   *)
(* with k < i - 1, which the deflation of iteration i reads, was produced  *)
(* by iteration k + 1 (pass j writes entry j - 1 and none before it); and  *)
(* at return the two lists have the same length.                           *)
(***************************************************************************)
ProducedInOrder(s) ==
    LET j == s.biters
    IN  j >= 1 =>
          /\ j - 1 \in s.zw /\ s.zw \subseteq {j - 1, j}
          /\ s.pw = {j - 1}
          /\ <<j - 1, j>> \in s.aw /\ \A w \in s.aw : w[1] >= j - 1

C20_PairPerIteration ==
    \A r \in Ranks :
        (opt.method = "PCG" /\ ~Excluded(r)) =>
            /\ rk[r].pc = "pcg_loop" => (rk[r].zlen = rk[r].bi /\ rk[r].plen = rk[r].bi)
            /\ rk[r].pc \in {"pcg_loop", "pcg_break", "done"} => ProducedInOrder(rk[r])
            /\ rk[r].pc = "done" => rk[r].zlen = rk[r].plen

\* what holds instead while the counter i has not wrapped: the lists hold
\* one entry more than passes were made, and at return z holds one entry
\* more than p when the loop was left by break, as many when it ended at the
\* cap
C20_ListsGrowByPass ==
    \A r \in Ranks :
        (opt.method = "PCG" /\ ~Excluded(r)) =>
            /\ rk[r].pc = "pcg_loop" =>
                  (rk[r].zlen = rk[r].biters + 1 /\ rk[r].plen = rk[r].biters + 1)
            /\ rk[r].pc \in {"pcg_loop", "pcg_break", "done"} => ProducedInOrder(rk[r])
            /\ rk[r].pc = "done" =>
                  rk[r].zlen = rk[r].plen + (IF rk[r].left = "break" THEN 1 ELSE 0)

(***************************************************************************)
(* C21: between the first and the last pass of its loop none of CG, BCG    *)
(* and PCG obtains a buffer: no pass contains a new[], an allocateArray or *)
(* an allocateSingle.                                                      *)
(***************************************************************************)
RECURSIVE Before(_, _)
Before(tr, op) ==
    IF tr = <<>> \/ Head(tr).op = op THEN <<>> ELSE <<Head(tr)>> \o Before(Tail(tr), op)

\* the calls of the last step that were made inside a pass of a loop; a BCG
\* pass that falls back leaves the loop at its A.end
PassEvents(s) ==
    IF s.pc \in {"cg_loop", "cg_break"} /\ s.iters >= 1 THEN s.tr
    ELSE IF s.pc \in {"bcg_loop", "bcg_break"} /\ s.biters >= 1 THEN s.tr
    ELSE IF opt.method = "BCG" /\ s.pc = "cg_loop" /\ s.iters = 0 /\ s.biters >= 1
         THEN Before(s.tr, "end")
    ELSE IF s.pc \in {"pcg_loop", "pcg_break", "crash"} /\ s.biters >= 1 THEN s.tr
    ELSE <<>>

Obtained(tr, ops) == Len(SelectSeq(tr, LAMBDA e : e.op \in ops))

ReadsSlots(s, lo, hi) ==
    \A j \in lo..hi : \E w \in s.hrd : w[1] = "p" /\ w[2] <= j /\ j <= w[3]

\* no stored slot of p outside keep is read (slot 0 is the current direction)
ReadsOnlySlots(s, keep) ==
    \A w \in s.hrd : w[1] = "p" => \A j \in w[2]..w[3] : j = 0 \/ j \in keep

\* after a pass of CG that started at i = rk[r].iters - 1
AfterCGPass(s) == s.pc \in {"cg_loop", "cg_break"} /\ s.iters >= 1

C22_PreviousDirectionOnly ==
    \A r \in Ranks :
        (AfterCGPass(rk[r]) /\ LocalN(r) # 0) =>
            LET i == rk[r].iters - 1
            IN  IF opt.variant # 2
                THEN ReadsOnlySlots(rk[r], {i})
                ELSE ReadsSlots(rk[r], 1, i)

\* amended: in both variants a pass that starts at i reads, on a rank with
\* local unknowns, every stored direction, slots 1..i; the recycling variant
\* reads the stored operator images, slots it + 1..it + i, as well, standard
\* CG none of them
C22_AllStoredDirections ==
    \A r \in Ranks :
        (AfterCGPass(rk[r]) /\ LocalN(r) # 0) =>
            LET i  == rk[r].iters - 1
                it == opt.it
            IN  /\ ReadsSlots(rk[r], 1, i)
                /\ IF opt.variant = 2
                   THEN /\ ReadsSlots(rk[r], it + 1, it + i)
                        /\ ReadsOnlySlots(rk[r], (1..i) \cup ((it + 1)..(it + i)))
                   ELSE ReadsOnlySlots(rk[r], 1..i)

\* a third pass of standard CG
C22_Witness ==
    \E r \in Ranks : /\ AfterCGPass(rk[r]) /\ opt.variant # 2 /\ rk[r].iters = 3
                     /\ LocalN(r) # 0
                     /\ ReadsSlots(rk[r], 1, 2)

(***************************************************************************)
(* What a step reads and writes of the Krylov data, in blocks of mu        *)
(* entries: <<"H", c, b>> is block row b of column H[c], <<"v", c, 0>> the *)
(* basis slot v[c], <<"sn", 0, b>>, <<"s", 0, b>> the entries b * mu ..    *)
(* b * mu + mu - 1 of sn and s, <<"tau", 0, b>> the entries b * 2 * mu ..  *)
(* of tau.  rd and wr of a rank collect the accesses of the step.  The     *)
(* scratch Ax and the copy save[i] are not part of the Krylov data.        *)
(***************************************************************************)
Elements(arr, c, from, cnt, per) ==
    {<<arr, c, e \div per>> : e \in from..(from + cnt - 1)}

\* entries H[c][from + j * stride], j < cnt
Strided(c, from, cnt, stride, per) ==
    {<<"H", c, (from + j * stride) \div per>> : j \in 0..(cnt - 1)}

V(c) == {<<"v", c, 0>>}

Access(rd, wr) == [rd |-> rd, wr |-> wr]

Both(a, b) == Access(a.rd \cup b.rd, a.wr \cup b.wr)

Touch(s, a) == [s EXCEPT !.rd = @ \cup a.rd, !.wr = @ \cup a.wr]

\* A.GMV and A.apply at the head of Arnoldi and BlockArnoldi
KrylovApplyAccess(ex) ==
    LET i == opt.i
        w == IF opt.variant = "F" THEN V(i + opt.m + 1) ELSE {}
    IN  IF opt.variant = "L"
        THEN Access(IF ex THEN {} ELSE V(i), V(i + 1))
        ELSE Access(V(i) \cup (IF ex THEN {} ELSE w), w \cup V(i + 1))

\* the projection of Arnoldi, firing k
ArnoldiProjectAccess(ex, k) ==
    LET i  == opt.i
        mu == opt.mu
        Hi(from, cnt) == Elements("H", i, from, cnt, mu)
        basis == UNION {V(c) : c \in 0..i}
    IN  IF ex
        THEN Both(Access({}, IF k = 0 THEN Hi(0, mu * (i + 1)) ELSE {}),
                  IF opt.gs = 1 THEN Access(Hi(mu * k, mu), Hi(mu * k, mu))
                  ELSE Access(Hi(0, mu * (i + 1)), Hi(0, mu * (i + 1))))
        ELSE IF opt.gs = 1
        THEN Access(V(k) \cup V(i + 1) \cup Hi(k * mu, mu) \cup Hi((i + 1) * mu, mu),
                    Hi(k * mu, mu) \cup Hi((i + 1) * mu, mu) \cup V(i + 1))
        ELSE LET coeff == UNION {Strided(i, nu, i + 1, mu, mu) : nu \in 0..(mu - 1)}
             IN  Both(Access(basis \cup V(i + 1) \cup Hi(0, (i + 1) * mu),
                             coeff \cup Hi(0, (i + 1) * mu)),
                      IF opt.gs = 0
                      THEN Access(basis \cup coeff, V(i + 1))
                      ELSE Access(Hi(i * mu, mu) \cup V(i), V(i + 1)))

\* the norm of the new vector
ArnoldiNormAccess(ex) ==
    LET i  == opt.i
        mu == opt.mu
        sn == Elements("sn", 0, i * mu, mu, mu)
        Hn == Elements("H", i, (i + 1) * mu, mu, mu)
    IN  IF ex THEN Access(sn, sn \cup Hn)
        ELSE Both(Access(V(i + 1) \cup sn, sn \cup Hn),
                  IF i < opt.m - 1 THEN Access(Hn \cup V(i + 1), V(i + 1))
                  ELSE Access({}, {}))

\* H[i][(k + 1) * mu + nu] = ...; H[i][k * mu + nu] = gamma;
GivensTarget(i, k) == i

\* the copy to save[i], the rotations of the steps k < i, the new rotation
ArnoldiGivensAccess ==
    LET i  == opt.i
        mu == opt.mu
        prev(k) ==
            Access(Elements("H", k, (k + 1) * mu, mu, mu)
                     \cup Elements("H", i, k * mu, 2 * mu, mu)
                     \cup Elements("sn", 0, k * mu, mu, mu),
                   Elements("H", GivensTarget(i, k), k * mu, 2 * mu, mu))
        RECURSIVE all(_)
        all(k) == IF k = 0 THEN Access({}, {}) ELSE Both(all(k - 1), prev(k - 1))
        last ==
            Access(UNION {Strided(i, i * mu + nu, 2, mu, mu) : nu \in 0..(mu - 1)}
                     \cup Elements("sn", 0, i * mu, mu, mu)
                     \cup Elements("s", 0, i * mu, mu, mu),
                   Elements("sn", 0, i * mu, mu, mu)
                     \cup Elements("H", i, i * mu, 2 * mu, mu)
                     \cup Elements("s", 0, i * mu, 2 * mu, mu))
        save == Access(IF opt.save THEN Elements("H", i, 0, (i + 2) * mu, mu) ELSE {}, {})
    IN  Both(save, Both(all(i), last))

(***************************************************************************)
(* IterativeMethod::BlockArnoldi: one step, index opt.i, of the block      *)
(* Arnoldi method.  H[c] is a block column of mu columns with leading      *)
(* dimension ldh = mu * (m + 1); the block columns are stored one after    *)
(* the other, so column mu + j of a matrix that starts in H[c] is column j *)
(* of H[c + 1].                                                            *)
(***************************************************************************)
BlockArnoldiIdle == [pc |-> "call", k |-> 0, tr |-> <<>>, rd |-> {}, wr |-> {}]

\* rows row .. row + rows - 1 of the columns 0 .. cols - 1 of the matrix that
\* starts at H[c]
Block(c, row, rows, cols) ==
    {<<"H", c + (col \div opt.mu), r \div opt.mu>> :
        col \in 0..(cols - 1), r \in row..(row + rows - 1)}

\* the reflectors a QR factorization of an N x mu matrix produces
Reflectors_Produced(N, mu) == mu

\* mqr("L", &transc, &N, &mu, &N, ...): the number of reflectors given to mqr
Reflectors(N, mu) == N

\* what mqr reads of the reflectors stored from row `row` of H[c] on: column
\* j holds reflector j from its row j on, tau its scalar
MqrAccess(c, row, N, mu) ==
    UNION {Block(c, row + j, N - j, j + 1) \ Block(c, row + j, N - j, j) :
              j \in 0..(Reflectors(N, mu) - 1)}
      \cup Elements("tau", 0, c * N, Reflectors(N, mu), N)

\* the projection on the basis: gemm, MPI_Allreduce, gemm, omatcopy
BlockArnoldiProject(s) ==
    LET i  == opt.i
        mu == opt.mu
        basis == UNION {V(c) : c \in 0..i}
    IN  IF opt.gs = 1
        THEN Touch([s EXCEPT !.tr = @ \o <<Call("gemm"), Ev("allreduce", mu * mu, "K", FALSE),
                                           Call("gemm"), Call("omatcopy")>>,
                             !.k  = s.k + 1,
                             !.pc = IF s.k + 1 < i + 1 THEN "proj" ELSE "norm"],
                   Access(V(s.k) \cup V(i + 1), V(i + 1) \cup Block(i, mu * s.k, mu, mu)))
        ELSE Touch([s EXCEPT !.tr = @ \o <<Call("gemm"),
                                           Ev("allreduce", mu * mu * (i + 1), "K", FALSE),
                                           Call("gemm"), Call("omatcopy")>>,
                             !.k  = i + 1,
                             !.pc = "norm"],
                   Access(basis \cup V(i + 1), V(i + 1) \cup Block(i, 0, mu * (i + 1), mu)))

\* herk, the reduction of the packed upper triangle, potrf, the copy to
\* save[i], trsm
BlockArnoldiNorm(s) ==
    LET i  == opt.i
        mu == opt.mu
        diag == Block(i, (i + 1) * mu, mu, mu)
    IN  Touch([s EXCEPT !.tr = @ \o <<Call("herk"),
                                      Ev("allreduce", (mu * (mu + 1)) \div 2, "K", FALSE),
                                      Call("potrf")>>
                                 \o (IF opt.save THEN <<Call("save")>> ELSE <<>>)
                                 \o (IF i < opt.m - 1 THEN <<Call("trsm")>> ELSE <<>>),
                        !.pc = "qr"],
              Both(Access(V(i + 1) \cup diag, diag),
                   Both(Access(IF opt.save THEN Block(i, 0, (i + 2) * mu, mu) ELSE {}, {}),
                        IF i < opt.m - 1 THEN Access(diag \cup V(i + 1), V(i + 1))
                        ELSE Access({}, {}))))

\* the factorizations of the steps before i applied to column i, the
\* factorization of its last two blocks, applied to s
BlockArnoldiQR(s) ==
    LET i  == opt.i
        mu == opt.mu
        N  == 2 * mu
        prev(l) == Access(MqrAccess(l, l * mu, N, mu) \cup Block(i, l * mu, N, mu),
                          Block(i, l * mu, N, mu))
        RECURSIVE all(_)
        all(l) == IF l = 0 THEN Access({}, {}) ELSE Both(all(l - 1), prev(l - 1))
        geqrf == Access(Block(i, i * mu, N, mu),
                        Block(i, i * mu, N, mu)
                          \cup Elements("tau", 0, i * N, Reflectors_Produced(N, mu), N))
        last == Access(MqrAccess(i, i * mu, N, mu) \cup Elements("s", 0, i * mu, N, mu),
                       Elements("s", 0, i * mu, N, mu))
    IN  Touch([s EXCEPT !.tr = @ \o [l \in 1..i |-> Call("mqr")]
                                 \o <<Call("geqrf"), Call("mqr")>>,
                        !.pc = "done"],
              Both(all(i), Both(geqrf, last)))

BlockArnoldiInit ==
    /\ opt \in [method : {"BlockArnoldi"}, variant : {"L", "R", "F"}, gs : {0, 1, 2},
                m : {MaxStep + 1}, i : 0..MaxStep, mu : 1..MaxMu, save : BOOLEAN]
    /\ rk = [r \in AllRanks |-> BlockArnoldiIdle]
    /\ gh = NoGh

BlockArnoldiStart ==
    /\ opt.method = "BlockArnoldi"
    /\ \A r \in Ranks : rk[r].pc = "call"
    /\ rk' = [r \in Ranks |->
                Touch(ArnoldiApply(rk[r], Excluded(r)), KrylovApplyAccess(Excluded(r)))]
    /\ UNCHANGED <<opt, gh>>

BlockArnoldiReduceProjection ==
    /\ opt.method = "BlockArnoldi"
    /\ \A r \in Ranks : rk[r].pc = "proj"
    /\ rk' = [r \in Ranks |-> BlockArnoldiProject(rk[r])]
    /\ UNCHANGED <<opt, gh>>

BlockArnoldiReduceNorm ==
    /\ opt.method = "BlockArnoldi"
    /\ \A r \in Ranks : rk[r].pc = "norm"
    /\ rk' = [r \in Ranks |-> BlockArnoldiNorm(rk[r])]
    /\ UNCHANGED <<opt, gh>>

BlockArnoldiFactorize ==
    /\ opt.method = "BlockArnoldi"
    /\ \A r \in Ranks : rk[r].pc = "qr"
    /\ rk' = [r \in Ranks |-> BlockArnoldiQR(rk[r])]
    /\ UNCHANGED <<opt, gh>>

ArnoldiInit ==
    /\ opt \in [method : {"Arnoldi"}, variant : {"L", "R", "F"}, gs : {0, 1, 2},
                m : {MaxStep + 1}, i : 0..MaxStep, mu : 1..MaxMu, save : BOOLEAN]
    /\ rk = [r \in AllRanks |-> ArnoldiIdle(opt.i, opt.mu)]
    /\ gh = NoGh

ArnoldiStart ==
    /\ opt.method = "Arnoldi"
    /\ \A r \in Ranks : rk[r].pc = "call"
    /\ rk' = [r \in Ranks |->
                Touch(ArnoldiApply(rk[r], Excluded(r)), KrylovApplyAccess(Excluded(r)))]
    /\ UNCHANGED <<opt, gh>>

ArnoldiReduceProjection ==
    /\ opt.method = "Arnoldi"
    /\ \A r \in Ranks : rk[r].pc = "proj"
    /\ rk' = [r \in Ranks |->
                Touch(ArnoldiProject(rk[r], Excluded(r)),
                      ArnoldiProjectAccess(Excluded(r), rk[r].k))]
    /\ UNCHANGED <<opt, gh>>

ArnoldiReduceNorm ==
    /\ opt.method = "Arnoldi"
    /\ \A r \in Ranks : rk[r].pc = "norm"
    /\ rk' = [r \in Ranks |->
                Touch(ArnoldiNorm(rk[r], Excluded(r)), ArnoldiNormAccess(Excluded(r)))]
    /\ UNCHANGED <<opt, gh>>

ArnoldiRotate ==
    /\ opt.method = "Arnoldi"
    /\ \A r \in Ranks : rk[r].pc = "givens"
    /\ rk' = [r \in Ranks |-> Touch(ArnoldiGivens(rk[r]), ArnoldiGivensAccess)]
    /\ UNCHANGED <<opt, gh>>

ArnoldiNext ==
    \/ ArnoldiStart
    \/ ArnoldiReduceProjection
    \/ ArnoldiReduceNorm
    \/ ArnoldiRotate

SpecArnoldi == ArnoldiInit /\ [][ArnoldiNext]_vars

(***************************************************************************)
(* Arnoldi and BlockArnoldi.                                               *)
(***************************************************************************)
KrylovInit == ArnoldiInit \/ BlockArnoldiInit

KrylovNext ==
    \/ ArnoldiNext
    \/ BlockArnoldiStart
    \/ BlockArnoldiReduceProjection
    \/ BlockArnoldiReduceNorm
    \/ BlockArnoldiFactorize

SpecKrylov == KrylovInit /\ [][KrylovNext]_vars

(***************************************************************************)
(* C19: a step i of Arnoldi or BlockArnoldi writes, of the Krylov data,    *)
(* only column H[i], the entries of sn, s and tau of the steps i and       *)
(* i + 1, the basis slot v[i + 1] and, in the flexible variant,            *)
(* v[i + m + 1]; and it reads only what it may write and H[k], sn[k],      *)
(* tau[k], v[k] with k <= i.  So no column H[k], k # i, changes.           *)
(***************************************************************************)
WriteFrame ==
    LET i == opt.i
    IN  {<<"H", i, b>> : b \in 0..(i + 1)}
          \cup {<<a, 0, b>> : a \in {"sn", "s", "tau"}, b \in {i, i + 1}}
          \cup V(i + 1)
          \cup (IF opt.variant = "F" THEN V(i + opt.m + 1) ELSE {})

ReadFrame ==
    LET i == opt.i
    IN  {<<"H", k, b>> : k \in 0..i, b \in 0..(opt.m)}
          \cup {<<a, 0, k>> : a \in {"sn", "tau"}, k \in 0..i}
          \cup UNION {V(k) : k \in 0..i}

C19_ColumnFrame ==
    \A r \in Ranks :
        /\ rk[r].wr \subseteq WriteFrame
        /\ rk[r].rd \subseteq (ReadFrame \cup WriteFrame)

\* the same for the steps of Arnoldi alone
C19_ArnoldiFrame == opt.method = "Arnoldi" => C19_ColumnFrame

(***************************************************************************)
(* C1: in Arnoldi, at every point of a step and for every i, mu and gs,    *)
(* the excluded rank has issued the same collective sum-reductions as the  *)
(* non-excluded ranks (same number, order, element count and datatype),    *)
(* and every buffer the excluded rank passed to a reduction held only      *)
(* zeros when it was passed.                                               *)
(***************************************************************************)
C1_ArnoldiSameReductions ==
    \A r \in Ranks :
        /\ Collectives(rk[r].tr) = Collectives(rk["ord"].tr)
        /\ rk[r].pc = rk["ord"].pc
        /\ Excluded(r) => ZeroContributions(rk[r].tr)

\* a step with one reduction per basis vector, several basis vectors and
\* right-hand sides, has gone through all its reductions on the excluded rank
C1_Witness ==
    /\ opt.gs = 1 /\ opt.i = MaxStep /\ opt.mu = MaxMu
    /\ rk["excl"].pc = "done"
    /\ Len(Collectives(rk["excl"].tr)) = opt.i + 2
    /\ Len(Collectives(rk["ord"].tr)) = opt.i + 2

(***************************************************************************)
(* C23: in an Arnoldi step with i + 1 basis vectors, classical             *)
(* Gram-Schmidt (all coefficients taken from the same vector) issues       *)
(* i + 1 reductions of mu elements for the coefficients, modified          *)
(* Gram-Schmidt (the vector updated after each coefficient) one reduction  *)
(* of (i + 1) * mu elements, and both one more reduction of mu elements    *)
(* for the norm.                                                           *)
(***************************************************************************)
\* the reductions of a trace with the given datatype: their element counts
Counts(tr, ty) ==
    LET c == SelectSeq(tr, LAMBDA e : e.op = "allreduce" /\ e.ty = ty)
    IN  [k \in 1..Len(c) |-> c[k].cnt]

\* the new vector is updated between two reductions of coefficients
Modified(tr) ==
    \E a \in 1..Len(tr), b \in 1..Len(tr), c \in 1..Len(tr) :
        /\ a < b /\ b < c
        /\ tr[a].op = "allreduce" /\ tr[a].ty = "K"
        /\ tr[b].op = "axpy"
        /\ tr[c].op = "allreduce" /\ tr[c].ty = "K"

PerVector == [k \in 1..(opt.i + 1) |-> opt.mu]

Batched == <<(opt.i + 1) * opt.mu>>

C23_ReductionsPerVariant ==
    rk["ord"].pc = "done" =>
        /\ Counts(rk["ord"].tr, "K")
             = (IF Modified(rk["ord"].tr) THEN Batched ELSE PerVector)
        /\ Counts(rk["ord"].tr, "U") = <<opt.mu>>

\* amended: the variant that updates the vector after each coefficient is
\* the one with a reduction per basis vector, the others batch
C23_ReductionsSwapped ==
    rk["ord"].pc = "done" =>
        /\ Counts(rk["ord"].tr, "K")
             = (IF Modified(rk["ord"].tr) THEN PerVector ELSE Batched)
        /\ Modified(rk["ord"].tr) <=> (opt.gs = 1 /\ opt.i >= 1)
        /\ Counts(rk["ord"].tr, "U") = <<opt.mu>>

C23_Witness ==
    /\ rk["ord"].pc = "done" /\ opt.gs = 1 /\ opt.i = MaxStep /\ opt.mu = MaxMu
    /\ Modified(rk["ord"].tr)


\* the pass of CG that led to s wrote column nu of x and of r (CG.hpp
\* lines 115-118)
Updated(s, nu) ==
    \E k \in 1..Len(s.tr) : s.tr[k] = Ev("update", nu, "-", FALSE)

(***************************************************************************)
(* C25: in every pass of CG, a column that was marked converged before the *)
(* pass has neither x nor r written and keeps a counter that is not the    *)
(* sentinel, and a column that was not yet converged has x and r updated.  *)
(***************************************************************************)
C25_ConvergedColumnsFrozen ==
    [][\A r \in Ranks : \A nu \in 1..opt.mu :
          (rk[r].pc = "cg_loop" /\ rk'[r].iters = rk[r].iters + 1) =>
              /\ gh.markedAt[nu] # 0 =>
                    /\ ~Updated(rk'[r], nu)
                    /\ rk'[r].conv[nu] = rk[r].conv[nu]
                    /\ ~Unconverged(rk'[r].conv[nu])
              /\ gh.markedAt[nu] = 0 => Updated(rk'[r], nu)]_vars


(***************************************************************************)
(* C26: in BCG the fallbacks and the stop are decided on data that is the  *)
(* same on every rank (the matrix ppsv factorizes, the matrix posv         *)
(* factorizes, the norms and residuals of the convergence check): at every *)
(* point of a run all ranks stand at the same place, have fallen back to   *)
(* CG together or not at all, and have issued the same reductions.         *)
(***************************************************************************)
C26_SameDecisions ==
    \A r \in Ranks :
        opt.method = "BCG" =>
            /\ rk[r].pc = rk["ord"].pc
            /\ rk[r].ncg = rk["ord"].ncg
            /\ rk[r].bi = rk["ord"].bi /\ rk[r].biters = rk["ord"].biters
            /\ Collectives(rk[r].tr) = Collectives(rk["ord"].tr)
            /\ rk[r].pc = "bcg_loop" =>
                  BCGInputs(rk[r].buf, Excluded(r))
                      = BCGInputs(rk["ord"].buf, Excluded("ord"))

\* the excluded rank, which skips trsm, has fallen back to CG in the second
\* pass together with the others, posv having failed
C26_Witness ==
    /\ opt.method = "BCG"
    /\ \A r \in Ranks : rk[r].pc = "cg_loop" /\ rk[r].ncg = 1 /\ rk[r].biters = 2
    /\ \E k \in 1..Len(rk["excl"].tr) : rk["excl"].tr[k].op = "posv"
    /\ \A k \in 1..Len(rk["excl"].tr) : rk["excl"].tr[k].op # "QR"


(***************************************************************************)
(* C27: in every pass i of 1..it of PCG every entry of alpha that is read  *)
(* or written lies inside the array: on a rank that is not excluded (2 *   *)
(* it entries) the entries i - 1, i, it and it + k for k < i - 1, none of  *)
(* the writes falling on a denominator alpha[k], k < i - 1, that this or a *)
(* later pass reads; on an excluded rank (max(2, it) entries) the zero     *)
(* fills of i - 1 and of 2 entries.                                        *)
(***************************************************************************)
InsideAlpha(w, ex) == 0 <= w[1] /\ w[1] <= w[2] /\ w[2] < PCGAlphaLength(ex)

C27_AlphaInBounds ==
    \A r \in Ranks :
        LET s == rk[r]
            i == s.biters
        IN  (opt.method = "PCG" /\ s.pc \in {"pcg_loop", "pcg_break"}
               /\ 1 <= i /\ i <= opt.it) =>
                /\ \A w \in s.aw \cup s.ar : InsideAlpha(w, Excluded(r))
                /\ ~Excluded(r) =>
                      /\ s.aw = (IF i > 1 THEN {<<opt.it, opt.it + i - 2>>} ELSE {})
                                  \cup {<<i - 1, i>>, <<opt.it, opt.it>>}
                      /\ \A w \in s.aw : w[1] >= i - 1
                      /\ i > 1 => <<0, i - 2>> \in s.ar
                /\ Excluded(r) =>
                      s.aw = (IF i > 1 THEN {<<0, i - 2>>} ELSE {}) \cup {<<0, 1>>}

\* the last pass of the largest cap: the ordinary rank has written the
\* coefficients up to alpha[2 * it - 2] and read alpha[i] = alpha[it], the
\* excluded rank has filled it - 1 and 2 entries
C27_Witness ==
    /\ opt.method = "PCG" /\ opt.it = MaxIt
    /\ \A r \in Ranks : rk[r].pc = "pcg_loop" /\ rk[r].biters = MaxIt
    /\ <<MaxIt, 2 * MaxIt - 2>> \in rk["ord"].aw
    /\ <<MaxIt - 1, MaxIt>> \in rk["ord"].ar
    /\ <<0, MaxIt - 2>> \in rk["excl"].aw


(***************************************************************************)
(* IterativeMethod::update with deflated == -1.  The arrays x, s and work  *)
(* are kept column by column, each column named by what produced its       *)
(* content: <<"x0", nu>> is column nu of x at the call, a set of pairs     *)
(* <<k, nu>> the entries of column nu of the basis vectors v[k] a gemv     *)
(* combined.                                                               *)
(***************************************************************************)
UpdateIdle ==
    [pc |-> "call",
     x |-> [nu \in 1..opt.mu |-> <<"x0", nu>>],
     s |-> [nu \in 1..opt.mu |-> <<"s0", nu>>],
     work |-> [nu \in 1..opt.mu |-> <<"stale", nu>>],
     apply |-> 0]

\* every column, converged at the start or not
UpdateColumns_All(hasConverged) == 1..Len(hasConverged)

\* if(hasConverged[nu] != 0)
UpdateColumns(hasConverged) ==
    {nu \in 1..Len(hasConverged) : hasConverged[nu] # 0}

\* lines 81-94: the triangular solve, of column nu alone, with
\* |hasConverged[nu]| rows (trtrs when mu == 1, the loop otherwise)
UpdateSolve(s, hasConverged) ==
    [nu \in 1..Len(s) |->
        IF Abs(hasConverged[nu]) = 0 THEN s[nu]
        ELSE <<"solve", s[nu], Abs(hasConverged[nu])>>]

\* Blas<K>::gemv("N", &n, &dim, ..., *v + nu * n, &tmp, s + nu, &mu, ...):
\* the first dim basis vectors, column nu of each
UpdateBasis(nu, dim) == {<<k, nu>> : k \in 0..(dim - 1)}

\* the gemv with beta = 0 into work + nu * n; gemv returns at once when dim
\* is 0 and leaves what work held
UpdateWork(work, s, hasConverged) ==
    [nu \in 1..Len(work) |->
        IF Abs(hasConverged[nu]) = 0 THEN work[nu]
        ELSE <<"Vs", UpdateBasis(nu, Abs(hasConverged[nu])), s[nu]>>]

\* update(A, variant, n, x, h, s, v, hasConverged, mu, work)
Update(u, variant, hasConverged) ==
    LET s1 == UpdateSolve(u.s, hasConverged)
        w1 == IF variant = "L" THEN u.work
              ELSE UpdateWork(u.work, s1, hasConverged)
        c  == [nu \in 1..Len(w1) |->
                 IF variant = "L"
                 THEN <<"Vs", UpdateBasis(nu, Abs(hasConverged[nu])), s1[nu]>>
                 ELSE IF variant = "R" THEN <<"apply", w1[nu]>>
                 ELSE w1[nu]]
    IN  [u EXCEPT
            !.s = s1,
            !.work = w1,
            !.apply = IF variant = "R" THEN 1 ELSE 0,
            !.x = [nu \in 1..Len(u.x) |->
                     IF nu \in UpdateColumns(hasConverged)
                     THEN <<"axpy", u.x[nu], c[nu]>> ELSE u.x[nu]],
            !.pc = "updated"]

UpdateInit ==
    /\ opt \in UNION {[method : {"update"}, variant : {"L", "R", "F"}, mu : {m},
                       hasConverged : [1..m -> (-MaxStep)..MaxStep]]
                         : m \in 1..MaxMu}
    /\ rk = [r \in {"ord"} |-> UpdateIdle]
    /\ gh = NoGh

UpdateCall ==
    /\ opt.method = "update"
    /\ rk["ord"].pc = "call"
    /\ rk' = [r \in Ranks |-> Update(rk[r], opt.variant, opt.hasConverged)]
    /\ UNCHANGED <<opt, gh>>

UpdateNext ==
    \/ UpdateCall

SpecUpdate == UpdateInit /\ [][UpdateNext]_vars

\* the basis entries a column of x was corrected with
CorrectionBasis(c) ==
    IF c[1] = "Vs" THEN c[2]
    ELSE IF c[1] = "apply" /\ c[2][1] = "Vs" THEN c[2][2]
    ELSE {<<-1, -1>>}

(***************************************************************************)
(* C28: after update with deflated == -1 and mu > 1, whatever the variant, *)
(* a column of x whose counter is 0 is what it was at the call, and a      *)
(* column whose counter is not 0 is what it was plus a correction made of  *)
(* the |hasConverged[nu]| first basis vectors, of that column of each and  *)
(* of no other column.                                                     *)
(***************************************************************************)
C28_ColumnCorrections ==
    \A r \in Ranks :
        (opt.method = "update" /\ rk[r].pc = "updated" /\ opt.mu > 1) =>
            \A nu \in 1..opt.mu :
                IF opt.hasConverged[nu] = 0
                THEN rk[r].x[nu] = <<"x0", nu>>
                ELSE /\ rk[r].x[nu][1] = "axpy"
                     /\ rk[r].x[nu][2] = <<"x0", nu>>
                     /\ CorrectionBasis(rk[r].x[nu][3])
                          = {<<k, nu>> : k \in 0..(Abs(opt.hasConverged[nu]) - 1)}
                     /\ Cardinality(CorrectionBasis(rk[r].x[nu][3]))
                          = Abs(opt.hasConverged[nu])

\* a right-preconditioned update of two columns or more, one of them with
\* counter 0 and one that has not converged
C28_Witness ==
    /\ opt.method = "update" /\ opt.variant = "R" /\ opt.mu = MaxMu
    /\ rk["ord"].pc = "updated"
    /\ opt.hasConverged[1] = 0 /\ opt.hasConverged[2] = -MaxStep
    /\ rk["ord"].work[1] = <<"stale", 1>>


\* the backend the first numfact of the object selects, and its members
FirstBackend(s) == IF s.asked[1] /\ ~opt.complex THEN "cholmod" ELSE "umfpack"

Members(backend) ==
    IF backend = "cholmod" THEN {"tmp", "c", "L", "b", "x", "Y", "E"}
    ELSE {"tmp", "control", "pattern", "numeric"}

(***************************************************************************)
(* C29: for a SuiteSparseSub object, the first numfact selects one backend *)
(* (CHOLMOD when its matrix is flagged symmetric and K is not complex,     *)
(* UMFPACK otherwise) and factorizes once; a later numfact factorizes      *)
(* nothing and changes no member, whatever its matrix; every solve goes    *)
(* through the backend of the first numfact; and the destructor releases   *)
(* members of that backend only, and all the object owns.                  *)
(***************************************************************************)
C29_NumfactOnce ==
    [][\A r \in Ranks :
         LET s == rk[r]
             t == rk'[r]
         IN  (opt.class = "SuiteSparseSub" /\ t.nfact >= 1) =>
               /\ t.built = 1
               /\ t.c = (FirstBackend(t) = "cholmod")
               /\ t.W = (FirstBackend(t) = "umfpack")
               /\ t.own \subseteq Members(FirstBackend(t))
               /\ (t.op = "numfact" /\ s.nfact >= 1) =>
                     /\ t.c = s.c /\ t.W = s.W /\ t.tmp = s.tmp
                     /\ t.factor = s.factor /\ t.own = s.own
               /\ t.op = "solve" => t.via = FirstBackend(t)
               /\ t.op = "destroy" =>
                     /\ t.freed \subseteq Members(FirstBackend(t))
                     /\ t.own \subseteq t.freed]_vars

\* an object whose first matrix was not symmetric has been given a symmetric
\* one by a later numfact, has solved, and has been destroyed
C29_Witness ==
    /\ opt.class = "SuiteSparseSub" /\ ~opt.complex
    /\ rk["ord"].pc = "destroyed" /\ rk["ord"].nsolve >= 1
    /\ Len(rk["ord"].asked) >= 2
    /\ ~rk["ord"].asked[1] /\ rk["ord"].asked[2]
    /\ "numeric" \in rk["ord"].own


\* the range w meets the entries or slots lo..hi of arr
Overlaps(w, arr, lo, hi) == w[1] = arr /\ w[2] <= hi /\ lo <= w[3]

\* what iteration j of CG stored for the later ones
Stored(j) ==
    {<<"dir", CGDenominator(j, 0), CGDenominator(j, opt.mu - 1)>>, <<"p", j, j>>}
        \cup (IF opt.variant = 2 THEN {<<"p", opt.it + j, opt.it + j>>} ELSE {})

(***************************************************************************)
(* C30: what iteration j of CG stores, the denominators                    *)
(* dir[(it + j) * mu + nu], the direction slot p + j * dim and, in the     *)
(* recycling variant, the image slot p + (it + j) * dim, is written by     *)
(* that iteration and by no later one; and the coefficients                *)
(* dir[mu + k * mu + nu], k < i, never fall on a stored denominator.       *)
(***************************************************************************)
C30_HistoryWriteOnce ==
    \A r \in Ranks :
        AfterCGPass(rk[r]) =>
            LET J  == rk[r].iters
                mu == opt.mu
            IN  /\ Stored(J) \subseteq rk[r].hwr
                /\ \A j \in 1..(J - 1) : \A h \in Stored(j) : \A w \in rk[r].hwr :
                      ~Overlaps(w, h[1], h[2], h[3])
                /\ \A j \in 1..J :
                      ~Overlaps(<<"dir", mu, mu + (J - 1) * mu - 1>>, "dir",
                                CGDenominator(j, 0), CGDenominator(j, mu - 1))
                /\ J > 1 => <<"dir", mu, mu + (J - 1) * mu - 1>> \in rk[r].hwr

\* the last pass of a recycling CG at the largest cap and width: the
\* coefficients reach dir[it * mu - 1], next to the first denominator
C30_Witness ==
    /\ opt.method = "CG" /\ opt.variant = 2 /\ opt.it = MaxIt /\ opt.mu = MaxMu
    /\ \A r \in Ranks : AfterCGPass(rk[r]) /\ rk[r].iters = MaxIt
    /\ <<"dir", MaxMu, MaxIt * MaxMu - 1>> \in rk["ord"].hwr
    /\ <<"p", 2 * MaxIt, 2 * MaxIt>> \in rk["ord"].hwr

====
